---- MODULE Spec2Model ----
(***************************************************************************)
(* A model of the go-graphql execution engine: the tree-walking resolver   *)
(* (resolve.go) and the bytecode resolver (bytecode_resolver.go), run      *)
(* against a fixed schema and bounded host data.                           *)
(*                                                                         *)
(* JSON output is modelled as a sequence of tokens ("{", "}", "[", "]",    *)
(* ",", ":", "null", quoted names, scalar literals): the Go code builds    *)
(* the same text by string concatenation, and the empty string is the      *)
(* empty sequence.  An error is kept as its format string and arguments.   *)
(***************************************************************************)
EXTENDS Integers, Sequences, FiniteSets, TLC

(***************************************************************************)
(* Bounds of the model.                                                    *)
(***************************************************************************)
MaxList == 2        \* longest host list
MaxBatch == 2       \* most sub-requests in one batched request
SmallDepth == 2     \* configured MaxDepth values 0..SmallDepth are tried
MaxSel == 3         \* longest selection set mixing the fields of MixAtoms
MaxNest == 258      \* most selection sets a query of the depth walk nests
CrossNest == 4      \* the walks of up to so many selection sets are compared with resolveSelection

(***************************************************************************)
(* Program constants.                                                      *)
(***************************************************************************)
DefaultMaxDepth == 255      \* NewSchema: MaxDepth
Uint8Width == 256           \* dept and currentReflectValueIdx are uint8

(***************************************************************************)
(* Text helpers.                                                           *)
(***************************************************************************)
\* fmt.Sprintf(`"%s"`, s) and fmt.Sprintf("%q", s) for text without escapes
Quote(s) == "\"" \o s \o "\""

\* fmt.Sprintf("%d", n), strconv.AppendInt(.., n, 10)
Itoa(n) == ToString(n)

RECURSIVE JoinComma(_)
\* strings.Join(list, ",") over token sequences
JoinComma(list) ==
    IF Len(list) = 0 THEN <<>>
    ELSE IF Len(list) = 1 THEN list[1]
    ELSE list[1] \o <<",">> \o JoinComma(Tail(list))

\* every ordering of a finite set, as sequences (Go map iteration order)
Orderings(S) ==
    { f \in [1..Cardinality(S) -> S] : \A i, j \in 1..Cardinality(S) : i # j => f[i] # f[j] }

(***************************************************************************)
(* Host values (reflect.Value).  k is the Go kind group; goType is the     *)
(* concrete Go type name, which differs from the kind for a named type     *)
(* such as `type Name string`.                                             *)
(***************************************************************************)
Invalid == [k |-> "invalid"]
StrVal(v) == [k |-> "data", kind |-> "string", goType |-> "string", v |-> v]
NamedStrVal(v) == [k |-> "data", kind |-> "string", goType |-> "Name", v |-> v]
IntVal(v) == [k |-> "data", kind |-> "int", goType |-> "int", v |-> v]
NamedIntVal(v) == [k |-> "data", kind |-> "int", goType |-> "Count", v |-> v]
BoolVal(v) == [k |-> "data", kind |-> "bool", goType |-> "bool", v |-> v]
\* a float64 is kept by its shortest decimal text
FloatVal(txt) == [k |-> "data", kind |-> "float64", goType |-> "float64", v |-> txt]
NilPtr == [k |-> "ptr", isNil |-> TRUE]
PtrTo(v) == [k |-> "ptr", isNil |-> FALSE, elem |-> v]
NilSlice == [k |-> "slice", isNil |-> TRUE, elems |-> <<>>]
Slice(elems) == [k |-> "slice", isNil |-> FALSE, elems |-> elems]
Array(elems) == [k |-> "array", elems |-> elems]
Struct(fields) == [k |-> "struct", fields |-> fields]
\* a resolver function of the host: what a call returns
Func(out, err) == [k |-> "func", out |-> out, err |-> err]

\* reflect.Value.FieldByName: the zero Value when the struct has no such field
FieldByName(struct_, name) ==
    IF name \in DOMAIN struct_.fields THEN struct_.fields[name] ELSE Invalid

\* reflect.Value.IsNil panics unless the kind is chan, func, interface, map,
\* pointer or slice
IsNilPanics(value) == value.k \notin {"ptr", "slice", "func"}
IsNil(value) == value.isNil

(***************************************************************************)
(* Type descriptors (Obj), as parseCtx.check builds them.  Every entry of  *)
(* objContents carries the Go name of the struct field it reads.           *)
(***************************************************************************)
DataT(goName, kind) ==
    [valueType |-> "valueTypeData", structFieldName |-> goName,
     dataValueType |-> kind, isID |-> FALSE]
\* a scalar field tagged as ID: parseCtx.check sets isID
IDT(goName, kind) ==
    [valueType |-> "valueTypeData", structFieldName |-> goName,
     dataValueType |-> kind, isID |-> TRUE]
PtrT(goName, inner) ==
    [valueType |-> "valueTypePtr", structFieldName |-> goName, innerContent |-> inner]
ArrayT(goName, inner) ==
    [valueType |-> "valueTypeArray", structFieldName |-> goName, innerContent |-> inner]
ObjRefT(goName, typeName) ==
    [valueType |-> "valueTypeObjRef", structFieldName |-> goName, typeName |-> typeName]
TimeT(goName) ==
    [valueType |-> "valueTypeTime", structFieldName |-> goName]
\* a function-valued struct field: inFields maps a query argument name to the
\* Go field of the input struct and its kind
MethodT(goName, inFields, outType, hasErrorOut) ==
    [valueType |-> "valueTypeMethod", structFieldName |-> goName,
     method |-> [isTypeMethod |-> FALSE, inFields |-> inFields,
                 outType |-> outType, hasErrorOut |-> hasErrorOut]]
ObjT(typeName, objContents) ==
    [valueType |-> "valueTypeObj", typeName |-> typeName, objContents |-> objContents]

(***************************************************************************)
(* The schema Schema.Parse builds for these declarations:                  *)
(*                                                                         *)
(*   type Name string                                                      *)
(*   type Count int                                                        *)
(*   type Inner struct { Foo *string; Bar string; Next *Inner }            *)
(*   type Q struct {                                                       *)
(*       A Inner; S string; T Name; I int; C Count; B bool; F float64      *)
(*       P *string; L []Inner; Ls []string; Arr [2]string                  *)
(*       Id int `gq:"id,ID"`; Sid string `gq:"sid,ID"`                     *)
(*       M  func(struct{ X int; Y string }) string                         *)
(*       Me func() (string, error)                                         *)
(*   }                                                                     *)
(*   type Mut struct { Done bool }                                         *)
(*                                                                         *)
(* A named struct met as a field type is held by reference (ObjRef); an    *)
(* unregistered named scalar type is plain data of its underlying kind.    *)
(***************************************************************************)
MInFields ==
    [x |-> [inputIdx |-> 1, goName |-> "X", kind |-> "int"],
     y |-> [inputIdx |-> 1, goName |-> "Y", kind |-> "string"]]

InnerObj ==
    ObjT("Inner",
         [foo |-> PtrT("Foo", DataT("", "string")),
          bar |-> DataT("Bar", "string"),
          next |-> PtrT("Next", ObjRefT("", "Inner"))])

QObj ==
    ObjT("Q",
         [a |-> ObjRefT("A", "Inner"),
          s |-> DataT("S", "string"),
          t |-> DataT("T", "string"),
          i |-> DataT("I", "int"),
          c |-> DataT("C", "int"),
          b |-> DataT("B", "bool"),
          f |-> DataT("F", "float64"),
          p |-> PtrT("P", DataT("", "string")),
          id |-> IDT("Id", "int"),
          sid |-> IDT("Sid", "string"),
          l |-> ArrayT("L", ObjRefT("", "Inner")),
          ls |-> ArrayT("Ls", DataT("", "string")),
          arr |-> ArrayT("Arr", DataT("", "string")),
          m |-> MethodT("M", MInFields, DataT("", "string"), FALSE),
          me |-> MethodT("Me", <<>>, DataT("", "string"), TRUE)])

MutObj == ObjT("Mut", [done |-> DataT("Done", "bool")])

\* Schema.types
SchemaTypes == [Inner |-> InnerObj, Q |-> QObj, Mut |-> MutObj]

(***************************************************************************)
(* Host data: the value of the queries argument given to Schema.Parse.     *)
(***************************************************************************)
InnerChain(foo, bar, next) == Struct([Foo |-> foo, Bar |-> StrVal(bar), Next |-> next])
InnerVal(foo, bar) == InnerChain(foo, bar, NilPtr)

ListElem(i) == IF i = 1 THEN InnerVal(NilPtr, "baz") ELSE InnerVal(PtrTo(StrVal("x")), "qux")
StrElem(i) == IF i = 1 THEN StrVal("u") ELSE StrVal("v")

\* the nil list and the lists of 0..MaxList elements
InnerLists == {NilSlice} \cup { Slice([i \in 1..n |-> ListElem(i)]) : n \in 0..MaxList }

QVal(p, l) ==
    Struct([A |-> InnerVal(NilPtr, "baz"),
            S |-> StrVal("str"),
            T |-> NamedStrVal("nm"),
            I |-> IntVal(7),
            C |-> NamedIntVal(3),
            B |-> BoolVal(TRUE),
            F |-> FloatVal("1.5"),
            P |-> p,
            Id |-> IntVal(42),
            Sid |-> StrVal("k1"),
            L |-> l,
            Ls |-> IF l.isNil THEN NilSlice
                   ELSE Slice([i \in 1..Len(l.elems) |-> StrElem(i)]),
            Arr |-> Array(<<StrVal("x"), StrVal("y")>>),
            M |-> Func(StrVal("out"), ""),
            Me |-> Func(StrVal("part"), "boom")])

Hosts == { QVal(p, l) : p \in {NilPtr, PtrTo(StrVal("str"))}, l \in InnerLists }

(***************************************************************************)
(* Parsed queries (the output of the query parser).                        *)
(***************************************************************************)
Field(name, alias, arguments, selection) ==
    [selectionType |-> "Field",
     field |-> [name |-> name, alias |-> alias, arguments |-> arguments,
                selection |-> selection]]
FragmentSpread(name) ==
    [selectionType |-> "FragmentSpread", fragmentSpread |-> [name |-> name]]
InlineFragment(selection) ==
    [selectionType |-> "InlineFragment", inlineFragment |-> [selection |-> selection]]
Leaf(name) == Field(name, "", <<>>, <<>>)
Sub(name, selection) == Field(name, "", <<>>, selection)

\* an argument value of the query (Value)
ArgLit(valType, val) ==
    [isVar |-> FALSE, isNull |-> FALSE, isEnum |-> FALSE, valType |-> valType, val |-> val]
ArgVar == [isVar |-> TRUE, isNull |-> FALSE, isEnum |-> FALSE, valType |-> "Invalid", val |-> 0]
ArgNull == [isVar |-> FALSE, isNull |-> TRUE, isEnum |-> FALSE, valType |-> "Invalid", val |-> 0]
ArgEnum == [isVar |-> FALSE, isNull |-> FALSE, isEnum |-> TRUE, valType |-> "Invalid", val |-> 0]

Operator(operationType, name, selection) ==
    [operationType |-> operationType, name |-> name, selection |-> selection,
     directives |-> <<>>]

(***************************************************************************)
(* The execution context of one Resolve call.  ctx holds what the call     *)
(* only reads (schema, fragments, the order in which Go ranges over an     *)
(* argument map); st holds what it appends to: ctx.errors, and, as         *)
(* observations, the resolver calls made and whether the call panicked.    *)
(***************************************************************************)
NewSt == [errors |-> <<>>, calls |-> <<>>, panicked |-> FALSE]

Err(format, args) == [format |-> format, args |-> args]

\* Ctx.addErr
addErr(st, err) == [st EXCEPT !.errors = Append(@, Err(err, <<>>))]

\* Ctx.addErrf
addErrf(st, err, args) == [st EXCEPT !.errors = Append(@, Err(err, args))]

Panic(st) == [st EXCEPT !.panicked = TRUE]

IntKinds == {"int", "int8", "int16", "int32", "int64"}
UintKinds == {"uint", "uint8", "uint16", "uint32", "uint64"}
FloatKinds == {"float32", "float64"}

\* matchInputValue, the switch on the kind of the literal: "" when the literal
\* fits the Go field (set tells whether the field was written), else the
\* error text
matchLiteral(queryValue, goFieldKind) ==
         CASE queryValue.valType = "Int" ->
                IF goFieldKind \in IntKinds \cup UintKinds
                    THEN [err |-> "", set |-> TRUE]
                    ELSE [err |-> "function arguments type missmatch expected number", set |-> FALSE]
           [] queryValue.valType = "Float64" ->
                IF goFieldKind \in FloatKinds
                    THEN [err |-> "", set |-> TRUE]
                    ELSE [err |-> "function arguments type missmatch expected float", set |-> FALSE]
           [] queryValue.valType = "String" ->
                IF goFieldKind = "string"
                    THEN [err |-> "", set |-> TRUE]
                    ELSE [err |-> "function arguments type missmatch expected string", set |-> FALSE]
           [] queryValue.valType = "Bool" ->
                IF goFieldKind = "bool"
                    THEN [err |-> "", set |-> TRUE]
                    ELSE [err |-> "function arguments type missmatch expected string", set |-> FALSE]
           [] queryValue.valType = "Array" ->
                IF goFieldKind \in {"array", "slice"}
                    THEN [err |-> "function input type not supported", set |-> FALSE]
                    ELSE [err |-> "function arguments type missmatch expected array", set |-> FALSE]
           [] queryValue.valType = "Map" ->
                [err |-> "function input type not supported", set |-> FALSE]
           [] OTHER ->
                [err |-> "undefined function input type", set |-> FALSE]

\* a matchInputValue that passes over a variable and an enum literal as it
\* passes over null
matchInputValueSkipping(queryValue, goFieldKind) ==
    IF queryValue.isVar \/ queryValue.isNull \/ queryValue.isEnum
        THEN [err |-> "", set |-> FALSE]
    ELSE matchLiteral(queryValue, goFieldKind)

\* matchInputValue
matchInputValue(queryValue, goFieldKind) ==
    IF queryValue.isVar
        THEN [err |-> "variable function arguments are currently unsupported", set |-> FALSE]
    ELSE IF queryValue.isNull
        THEN [err |-> "", set |-> FALSE]
    ELSE IF queryValue.isEnum
        THEN [err |-> "enum function arguments are currently unsupported", set |-> FALSE]
    ELSE matchLiteral(queryValue, goFieldKind)

\* the Go types the type switch of valueToJson names (pointers to them aside)
JsonSwitchTypes ==
    {"string", "bool"} \cup IntKinds \cup UintKinds \cup {"uintptr"} \cup FloatKinds

\* floatToJson: the shortest decimal text of the float
floatToJson(txt) == txt

\* valueToJson(value.Interface()): a type switch on the concrete Go type; any
\* type it does not name gives "null" and an error the caller drops
valueToJson(in) ==
    IF in.k # "data" \/ in.goType \notin JsonSwitchTypes THEN "null"
    ELSE IF in.goType = "string" THEN Quote(in.v)
    ELSE IF in.goType = "bool" THEN (IF in.v THEN "true" ELSE "false")
    ELSE IF in.goType \in FloatKinds THEN floatToJson(in.v)
    ELSE Itoa(in.v)

(***************************************************************************)
(* The tree-walking resolver (resolve.go).  Every operator returns the     *)
(* text it produced and the context as the call left it.                   *)
(***************************************************************************)
\* a depth test that lets the selection set at the limit through
depthExceededAbove(dept, maxDepth) == dept > maxDepth

\* resolveSelection: the depth test
depthExceeded(dept, maxDepth) == dept >= maxDepth

\* resolveSelection: dept = dept + 1 on a uint8
nextDept(dept) == (dept + 1) % Uint8Width

\* resolveSelectionContent: whether the text of a field goes into the object
fieldIsWritten(hasError) == ~hasError

\* resolveSelectionContent: res += "," (unless first); res += value
joinEntry(res, writtenToRes, value) ==
    (IF writtenToRes THEN res \o <<",">> ELSE res) \o value

\* resolveField: res(data), the entry `"name":data` under the alias if any
fieldEntry(query, data) ==
    LET name == IF Len(query.alias) > 0 THEN query.alias ELSE query.name
    IN  <<Quote(name), ":">> \o data

\* reflect.Value.MethodByName; methods bound to the struct are kept with its fields
MethodByName(struct_, name) == FieldByName(struct_, name)

Ret(value, hasErr, st) == [value |-> value, hasErr |-> hasErr, st |-> st]
Panicked(st) == Ret(<<>>, FALSE, Panic(st))

RECURSIVE matchArguments(_, _, _, _, _, _)
\* resolveFieldDataValue, the loop over query.arguments in the order keys:
\* failed tells that a literal did not fit; inputs holds the fields written
matchArguments(st, query, method, keys, i, inputs) ==
    IF i > Len(keys) THEN [st |-> st, failed |-> FALSE, inputs |-> inputs]
    ELSE LET queryKey == keys[i]
             queryValue == query.arguments[queryKey]
         IN  IF queryKey \notin DOMAIN method.inFields
             THEN matchArguments(
                      addErrf(st, "undefined function %s input: %s", <<query.name, queryKey>>),
                      query, method, keys, i + 1, inputs)
             ELSE LET inField == method.inFields[queryKey]
                      m == matchInputValue(queryValue, inField.kind)
                  IN  IF m.err # ""
                      THEN [st |-> addErrf(st, "%s, function: %s, property: %s",
                                           <<m.err, query.name, queryKey>>),
                            failed |-> TRUE, inputs |-> inputs]
                      ELSE matchArguments(st, query, method, keys, i + 1,
                               IF m.set
                               THEN [n \in DOMAIN inputs \cup {inField.goName} |->
                                        IF n = inField.goName THEN queryValue ELSE inputs[n]]
                               ELSE inputs)

\* the keys of the argument map in the order this call ranges over them
argumentKeys(ctx, query) ==
    SelectSeq(ctx.argOrder, LAMBDA key : key \in DOMAIN query.arguments)

RECURSIVE resolveSelection(_, _, _, _, _, _)
RECURSIVE resolveSelectionContent(_, _, _, _, _, _)
RECURSIVE selectionLoop(_, _, _, _, _, _, _, _, _)
RECURSIVE resolveField(_, _, _, _, _, _)
RECURSIVE resolveFieldDataValue(_, _, _, _, _, _)
RECURSIVE listLoop(_, _, _, _, _, _, _, _)

\* Ctx.resolveSelection
resolveSelection(ctx, st, selectionSet, struct_, structType, dept) ==
    IF depthExceeded(dept, ctx.MaxDepth)
    THEN [value |-> <<"null">>, st |-> st]
    ELSE LET braces(r) == [value |-> <<"{">> \o r.value \o <<"}">>, st |-> r.st]
         IN  braces(resolveSelectionContent(ctx, st, selectionSet, struct_, structType,
                                            nextDept(dept)))

\* Ctx.resolveSelectionContent
resolveSelectionContent(ctx, st, selectionSet, struct_, structType, dept) ==
    selectionLoop(ctx, st, selectionSet, struct_, structType, dept, 1, <<>>, FALSE)

\* the loop of resolveSelectionContent from selection i on
selectionLoop(ctx, st, selectionSet, struct_, structType, dept, i, res, writtenToRes) ==
    IF i > Len(selectionSet) \/ st.panicked THEN [value |-> res, st |-> st]
    ELSE LET selection == selectionSet[i]
             \* what the loop does with the text of one selection
             continue(st2, written, value) ==
                 selectionLoop(ctx, st2, selectionSet, struct_, structType, dept, i + 1,
                               IF written THEN joinEntry(res, writtenToRes, value) ELSE res,
                               written \/ writtenToRes)
             afterField(r) == continue(r.st, fieldIsWritten(r.hasErr), r.value)
             afterFragment(r) == continue(r.st, Len(r.value) > 0, r.value)
         IN
         CASE selection.selectionType = "Field" ->
                afterField(resolveField(ctx, st, selection.field, struct_, structType, dept))
           [] selection.selectionType = "FragmentSpread" ->
                IF selection.fragmentSpread.name \notin DOMAIN ctx.fragments
                THEN continue(addErrf(st, "unknown fragment %s",
                                      <<selection.fragmentSpread.name>>), FALSE, <<>>)
                ELSE afterFragment(resolveSelectionContent(
                         ctx, st, ctx.fragments[selection.fragmentSpread.name],
                         struct_, structType, dept))
           [] selection.selectionType = "InlineFragment" ->
                afterFragment(resolveSelectionContent(
                    ctx, st, selection.inlineFragment.selection, struct_, structType, dept))
           [] OTHER ->
                continue(st, FALSE, <<>>)

\* Ctx.resolveField
resolveField(ctx, st, query, struct_, codeStructure, dept) ==
    IF query.name \notin DOMAIN codeStructure.objContents
    THEN Ret(fieldEntry(query, <<"null">>), TRUE,
             addErrf(st, "field %s does not exists on %s",
                     <<query.name, codeStructure.typeName>>))
    ELSE IF struct_.k # "struct"
    THEN Panicked(st)      \* FieldByName of a Value that is no struct
    ELSE LET structItem == codeStructure.objContents[query.name]
             value == IF structItem.valueType = "valueTypeMethod"
                         /\ structItem.method.isTypeMethod
                      THEN MethodByName(struct_, structItem.structFieldName)
                      ELSE FieldByName(struct_, structItem.structFieldName)
             res(r) == Ret(fieldEntry(query, r.value), r.hasErr, r.st)
         IN  res(resolveFieldDataValue(ctx, st, query, value, structItem, dept))

\* resolveFieldDataValue, valueTypeArray: res, _ := ...; list = append(list, res)
listLoop(ctx, st, query, value, codeStructure, dept, i, list) ==
    IF i > Len(value.elems) \/ st.panicked THEN [list |-> list, st |-> st]
    ELSE LET append(r) == listLoop(ctx, r.st, query, value, codeStructure, dept, i + 1,
                                   Append(list, r.value))
         IN  append(resolveFieldDataValue(ctx, st, query, value.elems[i], codeStructure,
                                          dept))

\* Ctx.resolveFieldDataValue
resolveFieldDataValue(ctx, st, query, value, codeStructure, dept) ==
    CASE codeStructure.valueType = "valueTypeMethod" ->
            LET method == codeStructure.method
                call(a) ==
                    IF a.failed THEN Ret(<<"null">>, TRUE, a.st)
                    ELSE IF value.k # "func" THEN Panicked(a.st)  \* Call of a Value that is no func
                    ELSE LET called == [a.st EXCEPT !.calls =
                                           Append(@, [name |-> query.name, inputs |-> a.inputs])]
                             after == IF method.hasErrorOut /\ value.err # ""
                                      THEN addErr(called, value.err)
                                      ELSE called
                         IN  resolveFieldDataValue(ctx, after, query, value.out,
                                                   method.outType, dept)
            IN  call(matchArguments(st, query, method, argumentKeys(ctx, query), 1, <<>>))
      [] codeStructure.valueType = "valueTypeArray" ->
            IF value.k \notin {"array", "slice"} THEN Ret(<<"null">>, FALSE, st)
            ELSE IF IsNilPanics(value) THEN Panicked(st)
            ELSE IF IsNil(value) THEN Ret(<<"null">>, FALSE, st)
            ELSE IF "innerContent" \notin DOMAIN codeStructure
            THEN Ret(<<"null">>, TRUE,
                     addErrf(st, "field %s does not have an internal type of an array",
                             <<query.name>>))
            ELSE LET brackets(r) == Ret(<<"[">> \o JoinComma(r.list) \o <<"]">>, FALSE, r.st)
                 IN  brackets(listLoop(ctx, st, query, value, codeStructure.innerContent,
                                       dept, 1, <<>>))
      [] codeStructure.valueType \in {"valueTypeObj", "valueTypeObjRef"} ->
            IF Len(query.selection) = 0
            THEN Ret(<<"null">>, TRUE,
                     addErrf(st, "field %s must have a selection", <<query.name>>))
            ELSE IF codeStructure.valueType = "valueTypeObjRef"
                    /\ codeStructure.typeName \notin DOMAIN ctx.types
            THEN Ret(<<"null">>, TRUE,
                     addErrf(st, "field %s cannot have a selection", <<query.name>>))
            ELSE LET target == IF codeStructure.valueType = "valueTypeObjRef"
                               THEN ctx.types[codeStructure.typeName]
                               ELSE codeStructure
                     val(r) == Ret(r.value, FALSE, r.st)
                 IN  val(resolveSelection(ctx, st, query.selection, value, target, dept))
      [] codeStructure.valueType = "valueTypeData" ->
            IF Len(query.selection) > 0
            THEN Ret(<<"null">>, TRUE,
                     addErrf(st, "field %s cannot have a selection", <<query.name>>))
            ELSE IF value.k = "invalid" THEN Panicked(st)   \* Interface of the zero Value
            ELSE Ret(<<valueToJson(value)>>, FALSE, st)
      [] codeStructure.valueType = "valueTypePtr" ->
            IF value.k # "ptr" \/ IsNil(value) THEN Ret(<<"null">>, FALSE, st)
            ELSE resolveFieldDataValue(ctx, st, query, value.elem,
                                       codeStructure.innerContent, dept)
      [] OTHER ->
            Ret(<<"null">>, TRUE,
                addErrf(st, "field %s has invalid data type", <<query.name>>))

(***************************************************************************)
(* The bytecode resolver (bytecode_resolver.go).  A BytecodeCtx is reused  *)
(* from call to call; it is the record c that every operator takes and     *)
(* returns.  query.Res is the bytecode as a sequence of tokens, one per     *)
(* byte, except that the bytes of a name are held as one token.            *)
(***************************************************************************)
\* the zero byte: it opens every instruction, ends a name and is the count 0
Nul == "NUL"
ActionOperator == "o"
ActionField == "f"
ActionEnd == "e"

NameBytes(name) == IF name = "" THEN <<>> ELSE <<name>>

RECURSIVE compileSelection(_)
\* the instructions of a selection set: per field 0 'f' directives name 0
\* alias, its own selection set, and the closing 0 'e'
compileSelection(selectionSet) ==
    IF Len(selectionSet) = 0 THEN <<>>
    ELSE LET field == Head(selectionSet).field
         IN  <<Nul, ActionField, Nul>> \o NameBytes(field.name) \o <<Nul>>
                 \o NameBytes(field.alias)
                 \o compileSelection(field.selection)
                 \o <<Nul, ActionEnd>>
                 \o compileSelection(Tail(selectionSet))

\* the instructions of an operator: 0 'o' kind arguments directives name,
\* its selection set, and the closing 0 'e'
compileOperator(operator) ==
    <<Nul, ActionOperator,
      IF operator.operationType = "query" THEN "q"
      ELSE IF operator.operationType = "mutation" THEN "m" ELSE "s",
      "f", Nul>>
        \o NameBytes(operator.name)
        \o compileSelection(operator.selection)
        \o <<Nul, ActionEnd>>

RECURSIVE compileOperators(_)
compileOperators(operators) ==
    IF Len(operators) = 0 THEN <<>>
    ELSE compileOperator(Head(operators)) \o compileOperators(Tail(operators))

\* ParserCtx.ParseQueryToBytecode: Res and Errors are built anew from Query
ParseQueryToBytecode(query) ==
    [Query |-> query.Query, Res |-> compileOperators(query.Query), Errors |-> <<>>]

\* NewBytecodeCtx
NewBytecodeCtx ==
    [result |-> <<>>, cap |-> 0, inPlace |-> 0, grown |-> FALSE,
     charNr |-> 0, reflectValues |-> <<>>,
     currentReflectValueIdx |-> 0,
     query |-> [Query |-> <<>>, Res |-> <<>>, Errors |-> <<>>],
     panicked |-> FALSE]

\* reflectValues [256]reflect.Value, kept by the slots written so far
Slot(reflectValues, idx) ==
    IF idx \in DOMAIN reflectValues THEN reflectValues[idx] ELSE Invalid
SetSlot(reflectValues, idx, value) ==
    [i \in DOMAIN reflectValues \cup {idx} |->
        IF i = idx THEN value ELSE reflectValues[i]]

\* BytecodeCtx.getGoValue
getGoValue(c) == Slot(c.reflectValues, c.currentReflectValueIdx)

\* BytecodeCtx.setNextGoValue: the index is a uint8
setNextGoValue(c, value) ==
    [c EXCEPT !.currentReflectValueIdx = (@ + 1) % Uint8Width,
              !.reflectValues = SetSlot(@, (c.currentReflectValueIdx + 1) % Uint8Width,
                                        value)]

\* ctx.currentReflectValueIdx--
popGoValue(c) ==
    [c EXCEPT !.currentReflectValueIdx = (@ + Uint8Width - 1) % Uint8Width]

\* append(ctx.result, b...).  result is the slice as far as its length and
\* cap the capacity of its array.  The bytes go into the array while the
\* capacity lasts; past it append moves the slice to a new array of twice
\* the capacity, or of what is needed if that is more.  inPlace counts the
\* bytes the call has written into the array it started with
appendBytes(c, b) ==
    LET needed == Len(c.result) + Len(b)
    IN  IF needed <= c.cap
        THEN [c EXCEPT !.result = @ \o b,
                       !.inPlace = IF c.grown THEN @ ELSE needed]
        ELSE [c EXCEPT !.result = @ \o b,
                       !.cap = IF 2 * c.cap > needed THEN 2 * c.cap ELSE needed,
                       !.grown = TRUE]

\* BytecodeCtx.write and BytecodeCtx.writeByte
write(c, b) == appendBytes(c, b)
writeByte(c, b) == appendBytes(c, <<b>>)

\* BytecodeCtx.readInst; reading past the end of Res panics
readInst(c) ==
    IF c.charNr + 1 \in DOMAIN c.query.Res
    THEN [inst |-> c.query.Res[c.charNr + 1], c |-> [c EXCEPT !.charNr = @ + 1]]
    ELSE [inst |-> Nul, c |-> [c EXCEPT !.panicked = TRUE]]

\* BytecodeCtx.skipInst
skipInst(c, num) == [c EXCEPT !.charNr = @ + num]

\* BytecodeCtx.err and BytecodeCtx.errf (both return true)
bytecodeErr(c, msg) == [c EXCEPT !.query.Errors = Append(@, Err(msg, <<>>))]
bytecodeErrf(c, msg, args) == [c EXCEPT !.query.Errors = Append(@, Err(msg, args))]

\* what a resolver step returns: the context and the critical-error flag
Step(c, criticalErr) == [c |-> c, criticalErr |-> criticalErr]

RECURSIVE readName(_, _)
\* for { if ctx.readInst() == 0 { break } }: the bytes up to the zero byte
readName(c, name) ==
    LET more(r) == IF r.inst = Nul THEN [c |-> r.c, name |-> name]
                   ELSE readName(r.c, name \o r.inst)
    IN  more(readInst(c))

\* stringToJson for text without escapes
stringToJson(txt) == Quote(txt)

RECURSIVE bytecodeValueToJson(_, _, _)
\* BytecodeCtx.valueToJson: a switch on the kind the schema recorded
bytecodeValueToJson(c, in, kind) ==
    CASE kind = "string" -> write(c, <<stringToJson(in.v)>>)
      [] kind = "bool" -> write(c, <<IF in.v THEN "true" ELSE "false">>)
      [] kind \in IntKinds \cup UintKinds -> write(c, <<Itoa(in.v)>>)
      [] kind \in FloatKinds -> write(c, <<floatToJson(in.v)>>)
      [] kind = "ptr" ->
            IF IsNil(in) THEN write(c, <<"null">>)
            ELSE bytecodeValueToJson(c, in.elem,
                                     IF in.elem.k = "data" THEN in.elem.kind ELSE in.elem.k)
      [] OTHER -> write(c, <<"null">>)

RECURSIVE bytecodeResolveFieldDataValue(_, _, _, _)
\* BytecodeCtx.resolveFieldDataValue
bytecodeResolveFieldDataValue(c, typeObj, dept, hasSubSelection) ==
    LET goValue == getGoValue(c)
        unsupported ==
            Step(write(bytecodeErr(c, "value type unsupported"), <<"null">>), FALSE)
    IN  CASE typeObj.valueType = "valueTypeUndefined" ->
                Step(write(c, <<"null">>), FALSE)
          [] typeObj.valueType \in
                 {"valueTypeArray", "valueTypeObj", "valueTypeObjRef", "valueTypeMethod",
                  "valueTypeEnum", "valueTypeTime"} ->
                unsupported
          [] typeObj.valueType = "valueTypeData" ->
                IF hasSubSelection
                THEN Step(write(bytecodeErr(c, "cannot have a sub selection on this field"),
                                <<"null">>), FALSE)
                ELSE IF typeObj.isID /\ typeObj.dataValueType # "string"
                THEN Step(writeByte(
                              bytecodeValueToJson(writeByte(c, "\""), goValue,
                                                  typeObj.dataValueType), "\""), FALSE)
                ELSE Step(bytecodeValueToJson(c, goValue, typeObj.dataValueType), FALSE)
          [] typeObj.valueType = "valueTypePtr" ->
                IF goValue.k # "ptr" \/ IsNil(goValue)
                THEN Step(write(c, <<"null">>), FALSE)
                ELSE bytecodeResolveFieldDataValue(
                         [c EXCEPT !.reflectValues =
                                       SetSlot(@, c.currentReflectValueIdx, goValue.elem)],
                         typeObj, dept, hasSubSelection)
          [] OTHER -> Step(c, FALSE)

\* b2s
b2s(a) == a

\* BytecodeCtx.resolveField
bytecodeResolveField(c, typeObj, dept) ==
    LET critical(c2, msg) == Step(bytecodeErr(c2, msg), TRUE)
        resolveValue(c2, name) ==
            LET c3 == write(write(writeByte(c2, "\""), <<name>>), <<"\"", ":">>)
                nameStr == b2s(name)
            IN  IF nameStr \notin DOMAIN typeObj.objContents
                THEN Step(bytecodeErrf(write(c3, <<"null">>), "%s does not exists on %s",
                                       <<nameStr, typeObj.typeName>>), FALSE)
                ELSE LET typeObjField == typeObj.objContents[nameStr]
                         pop(r) == Step(popGoValue(r.c), r.criticalErr)
                     IN  pop(bytecodeResolveFieldDataValue(
                                 setNextGoValue(c3, FieldByName(getGoValue(c3),
                                                    typeObjField.structFieldName)),
                                 typeObjField, nextDept(dept), FALSE))
        afterEnd(r, name) ==
            IF r.inst # Nul THEN critical(r.c, "field sub selection not supported")
            ELSE resolveValue(r.c, name)
        afterAlias(r, name) ==
            IF r.inst # ActionEnd THEN critical(r.c, "field sub selection not supported")
            ELSE afterEnd(readInst(r.c), name)
        afterName(r, name) ==
            IF r.inst # Nul THEN critical(r.c, "field aliases not supported")
            ELSE afterAlias(readInst(r.c), name)
        named(n) == afterName(readInst(n.c), n.name)
        afterDirectives(r) ==
            IF r.inst # Nul THEN critical(r.c, "operation directives unsupported")
            ELSE named(readName(r.c, ""))
    IN  afterDirectives(readInst(c))

RECURSIVE operationLoop(_, _)
\* resolveOperation, the loop over the instructions of the operator
operationLoop(c, rootType) ==
    LET next(r) == IF r.criticalErr THEN r ELSE operationLoop(r.c, rootType)
        inst(r) ==
            IF r.c.panicked THEN Step(r.c, TRUE)
            ELSE CASE r.inst = ActionEnd -> Step(r.c, FALSE)
                   [] r.inst = ActionField -> next(bytecodeResolveField(r.c, rootType, 0))
                   [] OTHER -> Step(bytecodeErr(r.c, "unsupported operation " \o r.inst), TRUE)
    IN  inst(readInst(c))

\* BytecodeCtx.resolveOperation
resolveOperation(c, rootType) ==
    LET fields(n) == operationLoop(n.c, rootType)
        afterDirectives(r) ==
            IF r.inst # Nul
            THEN Step(bytecodeErr(r.c, "operation directives unsupported"), TRUE)
            ELSE fields(readName(r.c, ""))
        afterArguments(r) ==
            IF r.inst = "t"
            THEN Step(bytecodeErr(r.c, "arguments currently unsupported"), TRUE)
            ELSE afterDirectives(readInst(r.c))
    IN  afterArguments(readInst(skipInst(writeByte(c, "{"), 3)))

\* a BytecodeResolve that keeps the bytes of the call before in the buffer
resetKeepingResult(c) ==
    [result |-> c.result, cap |-> c.cap, inPlace |-> 0, grown |-> FALSE,
     charNr |-> 0, reflectValues |-> c.reflectValues,
     currentReflectValueIdx |-> 0, query |-> c.query, panicked |-> FALSE]

\* BytecodeResolve: *ctx = BytecodeCtx{...}; result[:0] is the same array
\* with the length 0
reset(c) ==
    [result |-> SubSeq(c.result, 1, 0), cap |-> c.cap, inPlace |-> 0,
     grown |-> FALSE, charNr |-> 0, reflectValues |-> c.reflectValues,
     currentReflectValueIdx |-> 0, query |-> c.query, panicked |-> FALSE]

\* BytecodeCtx.BytecodeResolve; the call returns c.result and c.query.Errors
BytecodeResolve(c, rootValue, rootType, query, opts) ==
    LET parsed == [reset(c) EXCEPT
                      !.query = ParseQueryToBytecode([@ EXCEPT !.Query = query])]
        opened == IF opts.NoMeta THEN parsed ELSE write(parsed, <<"{\"data\":">>)
        rooted == [opened EXCEPT !.reflectValues = SetSlot(@, 0, rootValue)]
        close(r) == IF opts.NoMeta THEN writeByte(r.c, "}")
                    ELSE writeByte(writeByte(r.c, "}"), "}")
    IN  close(resolveOperation(rooted, rootType))

(***************************************************************************)
(* State.                                                                  *)
(***************************************************************************)
VARIABLES
    MaxDepth,         \* Schema.MaxDepth
    rootQueryValue,   \* Schema.rootQueryValue
    pc,               \* "idle", or "resolving" while a Schema.Resolve call runs
    request,          \* the arguments of the last Schema.Resolve call
    response,         \* what that call returned
    bytecodeCtx,      \* the BytecodeCtx that NewBytecodeCtx made, reused by every call
    bytecodeOut,      \* the arguments and return values of the last BytecodeResolve
    http,             \* the HandleRequest call in progress, or the last one
    walk,             \* a chain of nested resolveSelection calls, one step per call
    schema,           \* the Schema that NewSchema made and Parse builds
    renamedTypes,     \* the global renamedTypes of TypeRename
    parseOut,         \* the last Schema.Parse: arguments, renamedTypes then, error
    definedEnums,     \* the global definedEnums of RegisterEnum
    enumOut,          \* the argument and the outcome of the last RegisterEnum
    mutex,            \* Schema.m: whether it is locked
    callers,          \* per goroutine: its Schema.Resolve calls, innermost last
    held,             \* the slice a caller kept from the BytecodeResolve call before the last
    checking,         \* a parseCtx.check call in progress, one step of it per transition
    queryCall         \* the last call of the query parser: its input and what it gave

vars == <<MaxDepth, rootQueryValue, pc, request, response, bytecodeCtx, bytecodeOut,
          http, walk, schema, renamedTypes, parseOut, definedEnums, enumOut,
          mutex, callers,
          held,
          checking,
          queryCall>>
resolveVars == <<pc, request, response>>
bytecodeVars == <<bytecodeCtx, bytecodeOut, http>>
buildVars == <<schema, renamedTypes, parseOut, definedEnums, enumOut>>
lockVars == <<mutex, callers>>
callerVars == <<held>>
checkVars == <<checking>>
parserVars == <<queryCall>>

\* Schema.rootQuery and Schema.rootMethod
rootQuery == SchemaTypes["Q"]
rootMethod == SchemaTypes["Mut"]

\* Ctx.start
start(ctx, st, operator) ==
    CASE operator.operationType = "query" ->
            resolveSelection(ctx, st, operator.selection, ctx.rootQueryValue, rootQuery, 0)
      [] operator.operationType = "mutation" ->
            resolveSelection(ctx, st, operator.selection, ctx.rootQueryValue, rootMethod, 0)
      [] operator.operationType = "subscription" ->
            [value |-> <<"{", "}">>, st |-> addErr(st, "subscription not suppored yet")]
      [] OTHER ->
            [value |-> <<"{", "}">>,
             st |-> addErrf(st, "%s cannot be used as operator", <<operator.operationType>>)]

\* what Schema.Resolve returns; started lists the operators given to Ctx.start
Response(res, errors, started, st) ==
    [res |-> res, errors |-> errors, started |-> started,
     calls |-> st.calls, panicked |-> st.panicked]

\* Schema.Resolve, one operator: res := ctx.start(&operator); return res, ctx.errors
runOperator(ctx, operator) ==
    LET return(r) == IF r.st.panicked
                     THEN Response(<<>>, <<>>, <<operator.name>>, r.st)
                     ELSE Response(r.value, r.st.errors, <<operator.name>>, r.st)
    IN  return(start(ctx, NewSt, operator))

\* a Resolve that runs one fixed operator whatever the target is
targetOperatorAny(operatorsMap, operatorTarget) ==
    operatorsMap[CHOOSE name \in DOMAIN operatorsMap : TRUE]

\* Schema.Resolve, default case: the operator the target selects
targetOperator(operatorsMap, operatorTarget) == operatorsMap[operatorTarget]

\* Schema.Resolve, default case with an empty target
noTargetError(operatorsList) == Err("multiple operators without target", <<>>)

\* Schema.Resolve, default case with a target that names no operator
invalidTargetError(operatorTarget, operatorsList) ==
    Err("%s is not a valid operator, available operators: %s",
        <<operatorTarget>> \o operatorsList)

\* Schema.Resolve after the lock is taken; operatorsList is the order in which
\* Go ranges over operatorsMap
Resolve(ctx, doc, operatorTarget, operatorsList) ==
    IF Len(doc.errs) > 0 THEN Response(<<"{", "}">>, doc.errs, <<>>, NewSt)
    ELSE CASE Cardinality(DOMAIN doc.operatorsMap) = 0 ->
                Response(<<"{", "}">>, <<>>, <<>>, NewSt)
           [] Cardinality(DOMAIN doc.operatorsMap) = 1 ->
                runOperator(ctx, doc.operatorsMap[operatorsList[1]])
           [] OTHER ->
                IF operatorTarget = ""
                THEN Response(<<"{", "}">>, <<noTargetError(operatorsList)>>, <<>>, NewSt)
                ELSE IF operatorTarget \in DOMAIN doc.operatorsMap
                THEN runOperator(ctx, targetOperator(doc.operatorsMap, operatorTarget))
                ELSE Response(<<"{", "}">>,
                              <<invalidTargetError(operatorTarget, operatorsList)>>,
                              <<>>, NewSt)

(***************************************************************************)
(* The requests tried.  A document is what ParseQueryAndCheckNames returns *)
(* for a query text: its fragments, its operators by name, its errors.     *)
(***************************************************************************)
Fragments == [F |-> <<Leaf("s"), Leaf("nope")>>, E |-> <<Leaf("nope")>>]

\* a known scalar, an unknown field, a nested object with a known and an
\* unknown field
MixAtoms == {Leaf("s"), Leaf("nope"), Sub("a", <<Leaf("bar"), Leaf("nope")>>)}

MixedSelections == UNION { [1..n -> MixAtoms] : n \in 1..MaxSel }

OtherSelections ==
    { <<Leaf("t")>>, <<Leaf("i")>>, <<Leaf("c")>>, <<Leaf("b")>>, <<Leaf("f")>>,
      <<Leaf("p")>>, <<Leaf("id")>>, <<Leaf("sid")>>, <<Leaf("a")>>, <<Leaf("l")>>, <<Leaf("ls")>>, <<Leaf("arr")>>,
      <<Sub("s", <<Leaf("bar")>>)>>,
      <<Sub("a", <<Leaf("bar")>>)>>,
      <<Sub("a", <<Leaf("foo")>>)>>,
      <<Sub("l", <<Leaf("bar")>>)>>,
      <<Sub("l", <<Leaf("nope"), Leaf("bar")>>)>>,
      <<Sub("l", <<Leaf("nope")>>), Leaf("s")>>,
      <<Leaf("t"), Leaf("nope")>>,
      <<Sub("ls", <<Leaf("bar")>>)>>,
      <<Field("s", "alias", <<>>, <<>>)>>,
      <<Leaf("m")>>, <<Leaf("me")>>,
      <<Field("m", "", [x |-> ArgLit("Int", 1)], <<>>)>>,
      <<Field("m", "", [x |-> ArgLit("String", "one")], <<>>), Leaf("s")>>,
      <<Field("m", "", [x |-> ArgLit("Int", 1), y |-> ArgLit("Int", 2)], <<>>)>>,
      <<Field("m", "", [x |-> ArgLit("Int", 1), zz |-> ArgLit("Int", 2)], <<>>)>>,
      <<Field("m", "", [x |-> ArgVar], <<>>)>>,
      <<Field("m", "", [x |-> ArgLit("String", "one"), y |-> ArgVar], <<>>)>>,
      <<Field("m", "", [x |-> ArgLit("Int", 1), y |-> ArgEnum], <<>>), Leaf("s")>>,
      <<Field("m", "", [zz |-> ArgVar], <<>>)>>,
      <<Field("m", "", [x |-> ArgEnum, y |-> ArgNull], <<>>)>>,
      <<FragmentSpread("F")>>, <<FragmentSpread("E"), Leaf("s")>>,
      <<Leaf("s"), FragmentSpread("E"), Leaf("i")>>,
      <<Leaf("s"), FragmentSpread("Missing"), Leaf("i")>>,
      <<InlineFragment(<<Leaf("s")>>), Leaf("i")>>,
      <<InlineFragment(<<Leaf("nope")>>), Leaf("i"), InlineFragment(<<Leaf("s")>>)>> }

Document(errs, operators) ==
    [errs |-> errs, fragments |-> Fragments,
     operatorsMap |-> [name \in { o.name : o \in operators } |->
                          CHOOSE o \in operators : o.name = name]]

SingleDocuments ==
    { Document(<<>>, {Operator("query", "", sel)}) :
          sel \in MixedSelections \cup OtherSelections }
    \cup { Document(<<>>, {Operator("mutation", "", <<Leaf("done")>>)}),
           Document(<<>>, {Operator("mutation", "", <<Leaf("s")>>)}),
           Document(<<>>, {Operator("subscription", "", <<Leaf("s")>>)}),
           Document(<<>>, {}),
           Document(<<Err("unexpected EOF", <<>>)>>, {}) }

MultiDocuments ==
    { Document(<<>>, {Operator("query", "Foo", <<Sub("a", <<Leaf("foo")>>)>>),
                      Operator("query", "Bar", <<Sub("a", <<Leaf("bar")>>)>>)}),
      Document(<<>>, {Operator("query", "Foo", <<Leaf("s")>>),
                      Operator("query", "Bar", <<Leaf("nope")>>)}),
      Document(<<>>, {Operator("query", "Foo", <<Leaf("me")>>),
                      Operator("query", "Bar", <<Leaf("i")>>),
                      Operator("query", "Baz", <<Leaf("arr")>>)}) }

Targets == {"", "Foo", "Bar", "Baz", "Qux"}

\* the target is read only when the document holds several operators
Requests ==
    { [doc |-> d, operatorTarget |-> t] : d \in MultiDocuments, t \in Targets }
    \cup { [doc |-> d, operatorTarget |-> ""] : d \in SingleDocuments }
    \cup { [doc |-> Document(<<>>, {Operator("query", "Foo", <<Leaf("s")>>)}),
            operatorTarget |-> t] : t \in {"Foo", "Bar"} }

RECURSIVE argumentNames(_)
\* the argument names a selection set uses
argumentNames(selectionSet) ==
    UNION { IF sel.selectionType = "Field"
            THEN DOMAIN sel.field.arguments \cup argumentNames(sel.field.selection)
            ELSE IF sel.selectionType = "InlineFragment"
            THEN argumentNames(sel.inlineFragment.selection)
            ELSE {}
          : sel \in { selectionSet[i] : i \in DOMAIN selectionSet } }

documentArguments(doc) ==
    UNION { argumentNames(doc.operatorsMap[n].selection) : n \in DOMAIN doc.operatorsMap }

DepthValues == 0..SmallDepth \cup {DefaultMaxDepth}

NoResponse == Response(<<>>, <<>>, <<>>, NewSt)
NoRequest == [doc |-> Document(<<>>, {}), operatorTarget |-> ""]

RECURSIVE Flatten(_)
\* the text a token sequence stands for
Flatten(tokens) == IF Len(tokens) = 0 THEN "" ELSE tokens[1] \o Flatten(Tail(tokens))

Ctx(maxDepth, host, doc, argOrder) ==
    [MaxDepth |-> maxDepth, rootQueryValue |-> host, types |-> SchemaTypes,
     fragments |-> doc.fragments, argOrder |-> argOrder]

\* no BytecodeResolve call, no HandleRequest call and no walk yet
NoBytecodeOut == [query |-> <<>>, opts |-> [NoMeta |-> FALSE], result |-> <<>>,
                  errors |-> <<>>, called |-> FALSE]
\* no slice of a call before the last one in the hands of a caller;
\* HandleRequest copies what its calls return and hands no slice out
NoHeld == [called |-> FALSE, result |-> <<>>, stopped |-> FALSE]
CallerIdle == held = NoHeld
NoHttp == [pc |-> "idle", isBatch |-> FALSE, entries |-> <<>>, envelopes |-> <<>>,
           body |-> "", returned |-> FALSE]
NoWalk == [status |-> "idle", nest |-> 0, level |-> 0, dept |-> 0, opened |-> 0,
           cut |-> -1]

(***************************************************************************)
(* The schema builder (parse.go).  A host type (reflect.Type) is named by  *)
(* an identifier of GoTypes; the declarations are:                         *)
(*                                                                         *)
(*   package main                                                          *)
(*     type Inner struct { Bar string }                                    *)
(*     type Foo struct { X int }                                           *)
(*     type Bar struct { Y string }                                        *)
(*     type Node interface { ... }      // implemented by Foo              *)
(*     type M struct { Done bool }                                         *)
(*     type Q struct { A Inner; S string }                                 *)
(*     type QTwice struct { A Inner; B *Inner; L []Inner }                 *)
(*     type QRenamed struct { A Foo; B Bar; S string }                     *)
(*     type QItems struct { A pkga.Item; B pkgb.Item; S string }           *)
(*     type QTagged struct { A Inner `gq:",id"`; S string }                *)
(*     type QNode struct { N Node `gq:",id"`; S string }                   *)
(*     type QMap struct { S string; M map[string]string; X int }           *)
(*     type QHidden struct { A Inner `gq:"-"`; Id int `gq:",id"` }         *)
(*   package pkga:  type Item struct { N int }                             *)
(*   package pkgb:  type Item struct { T string }                          *)
(***************************************************************************)
\* the bytes of the names the declarations use
Spelling ==
    [A |-> <<"A">>, B |-> <<"B">>, L |-> <<"L">>, M |-> <<"M">>, N |-> <<"N">>,
     S |-> <<"S">>, T |-> <<"T">>, X |-> <<"X">>, Y |-> <<"Y">>,
     Id |-> <<"I", "d">>, Bar |-> <<"B", "a", "r">>, Done |-> <<"D", "o", "n", "e">>]

UpperCase == {"A", "B", "D", "I", "L", "M", "N", "S", "T", "X", "Y"}
LowerCase == {"a", "b", "d", "e", "i", "l", "m", "n", "o", "r", "s", "t", "x", "y"}
Digits == {"0", "1", "2", "3", "4", "5", "6", "7", "8", "9"}

\* bytes.ToLower of one byte
ToLower(char) ==
    CASE char = "A" -> "a" [] char = "B" -> "b" [] char = "D" -> "d" [] char = "I" -> "i"
      [] char = "L" -> "l" [] char = "M" -> "m" [] char = "N" -> "n" [] char = "S" -> "s"
      [] char = "T" -> "t" [] char = "X" -> "x" [] char = "Y" -> "y" [] OTHER -> char

\* bytes.ToUpper of one byte leaves it alone: the byte is no lower-case letter
IsOwnUpper(char) == char \notin LowerCase

\* validGraphQlName: "" when the bytes are a name, else the error
validGraphQlName(name) ==
    IF Len(name) = 0 THEN "invalid graphql name"
    ELSE IF \A i \in DOMAIN name :
                \/ name[i] \in UpperCase
                \/ name[i] \in LowerCase
                \/ i > 1 /\ (name[i] \in Digits \/ name[i] = "_")
         THEN ""
         ELSE "invalid graphql name"

\* formatGoNameToQL
formatGoNameToQL(input) ==
    LET bytes == Spelling[input]
    IN  IF Len(bytes) <= 1 THEN Flatten([i \in DOMAIN bytes |-> ToLower(bytes[i])])
        ELSE IF IsOwnUpper(bytes[2]) THEN input
        ELSE Flatten(<<ToLower(bytes[1])>> \o Tail(bytes))

\* the gq tag of a struct field: its name argument and its modifiers
Tag(nameArg, modifiers) == [nameArg |-> nameArg, modifiers |-> modifiers]
NoTag == Tag(<<>>, <<>>)
TagID == Tag(<<>>, <<"id">>)
TagIgnore == Tag(<<"-">>, <<>>)

StructField(name, type, tag) ==
    [Name |-> name, Type |-> type, Tag |-> tag, Anonymous |-> FALSE]

GoScalar(kind) == [Kind |-> kind, Name |-> kind, PkgPath |-> ""]
GoStruct(pkgPath, name, fields) ==
    [Kind |-> "struct", Name |-> name, PkgPath |-> pkgPath, Fields |-> fields]
GoElem(kind, elem) == [Kind |-> kind, Name |-> "", PkgPath |-> "", Elem |-> elem]

GoTypes ==
    [int |-> GoScalar("int"),
     string |-> GoScalar("string"),
     bool |-> GoScalar("bool"),
     map |-> [Kind |-> "map", Name |-> "", PkgPath |-> ""],
     Inner |-> GoStruct("main", "Inner", <<StructField("Bar", "string", NoTag)>>),
     PtrInner |-> GoElem("ptr", "Inner"),
     SliceInner |-> GoElem("slice", "Inner"),
     Foo |-> GoStruct("main", "Foo", <<StructField("X", "int", NoTag)>>),
     Bar |-> GoStruct("main", "Bar", <<StructField("Y", "string", NoTag)>>),
     Node |-> [Kind |-> "interface", Name |-> "Node", PkgPath |-> "main"],
     ItemA |-> GoStruct("pkga", "Item", <<StructField("N", "int", NoTag)>>),
     ItemB |-> GoStruct("pkgb", "Item", <<StructField("T", "string", NoTag)>>),
     M |-> GoStruct("main", "M", <<StructField("Done", "bool", NoTag)>>),
     Q |-> GoStruct("main", "Q",
               <<StructField("A", "Inner", NoTag), StructField("S", "string", NoTag)>>),
     QTwice |-> GoStruct("main", "QTwice",
               <<StructField("A", "Inner", NoTag), StructField("B", "PtrInner", NoTag),
                 StructField("L", "SliceInner", NoTag)>>),
     QRenamed |-> GoStruct("main", "QRenamed",
               <<StructField("A", "Foo", NoTag), StructField("B", "Bar", NoTag),
                 StructField("S", "string", NoTag)>>),
     QItems |-> GoStruct("main", "QItems",
               <<StructField("A", "ItemA", NoTag), StructField("B", "ItemB", NoTag),
                 StructField("S", "string", NoTag)>>),
     QTagged |-> GoStruct("main", "QTagged",
               <<StructField("A", "Inner", TagID), StructField("S", "string", NoTag)>>),
     QNode |-> GoStruct("main", "QNode",
               <<StructField("N", "Node", TagID), StructField("S", "string", NoTag)>>),
     QMap |-> GoStruct("main", "QMap",
               <<StructField("S", "string", NoTag), StructField("M", "map", NoTag),
                 StructField("X", "int", NoTag)>>),
     QHidden |-> GoStruct("main", "QHidden",
               <<StructField("A", "Inner", TagIgnore), StructField("Id", "int", TagID)>>)]

\* host types that refer to themselves or to each other: a tree, two structs
\* that hold each other, an interface whose implementations hold values of
\* the interface, a struct with a field check refuses after a field of its
\* own type, and type List []List
RecursiveTypes ==
    [Tree |-> GoStruct("main", "Tree",
               <<StructField("L", "PtrTree", NoTag), StructField("A", "SliceTree", NoTag),
                 StructField("X", "int", NoTag)>>),
     PtrTree |-> GoElem("ptr", "Tree"),
     SliceTree |-> GoElem("slice", "Tree"),
     Ping |-> GoStruct("main", "Ping",
               <<StructField("B", "Pong", NoTag), StructField("N", "int", NoTag)>>),
     Pong |-> GoStruct("main", "Pong", <<StructField("A", "PtrPing", NoTag)>>),
     PtrPing |-> GoElem("ptr", "Ping"),
     Animal |-> [Kind |-> "interface", Name |-> "Animal", PkgPath |-> "main"],
     Dog |-> GoStruct("main", "Dog",
               <<StructField("A", "Animal", NoTag), StructField("S", "string", NoTag)>>),
     Cat |-> GoStruct("main", "Cat",
               <<StructField("A", "Animal", NoTag), StructField("B", "PtrDog", NoTag)>>),
     PtrDog |-> GoElem("ptr", "Dog"),
     Bad |-> GoStruct("main", "Bad",
               <<StructField("A", "PtrBad", NoTag), StructField("M", "map", NoTag),
                 StructField("X", "int", NoTag)>>),
     PtrBad |-> GoElem("ptr", "Bad"),
     List |-> [Kind |-> "slice", Name |-> "List", PkgPath |-> "main", Elem |-> "List"],
     QTree |-> GoStruct("main", "QTree",
               <<StructField("T", "Tree", NoTag), StructField("S", "string", NoTag)>>),
     QPing |-> GoStruct("main", "QPing", <<StructField("A", "Ping", NoTag)>>),
     QZoo |-> GoStruct("main", "QZoo",
               <<StructField("A", "Animal", NoTag), StructField("B", "Dog", NoTag)>>),
     QBad |-> GoStruct("main", "QBad",
               <<StructField("B", "Bad", NoTag), StructField("S", "string", NoTag)>>),
     QList |-> GoStruct("main", "QList",
               <<StructField("S", "string", NoTag), StructField("L", "List", NoTag)>>)]

\* implementationMap: the struct types registered as implementing an interface
implementationMap == [Node |-> <<"Foo">>, Animal |-> <<"Dog", "Cat">>]

\* parseFieldTagGQ
parseFieldTagGQ(field) ==
    LET tag == field.Tag
        named == Len(tag.nameArg) > 0
        unknown == \E i \in DOMAIN tag.modifiers : tag.modifiers[i] # "id"
    IN  IF named /\ tag.nameArg = <<"-">>
        THEN [newName |-> <<>>, ignore |-> TRUE, isID |-> FALSE, err |-> ""]
        ELSE [newName |-> tag.nameArg,
              ignore |-> FALSE,
              isID |-> \E i \in DOMAIN tag.modifiers : tag.modifiers[i] = "id",
              err |-> IF unknown THEN "unknown field tag gq argument: %s"
                      ELSE IF named THEN validGraphQlName(tag.nameArg)
                      ELSE ""]

\* checkValidIDKind
checkValidIDKind(kind) ==
    IF kind \in {"string"} \cup IntKinds \cup UintKinds THEN ""
    ELSE "strings and numbers can only be labeld with the ID property"
\* the enum types of the host: named types of an integer kind; two packages
\* declare a type named Color
EnumTypes ==
    [ColorA |-> [Kind |-> "int", Name |-> "Color", PkgPath |-> "pkga"],
     ColorB |-> [Kind |-> "int", Name |-> "Color", PkgPath |-> "pkgb"]]

\* reflect.Type of a type identifier
TypeOf(id) ==
    IF id \in DOMAIN EnumTypes THEN EnumTypes[id]
    ELSE IF id \in DOMAIN RecursiveTypes THEN RecursiveTypes[id]
    ELSE GoTypes[id]

\* validEnumType
validEnumType(t) == t.Kind \in IntKinds \cup UintKinds \cup {"string"}

\* whether getEnum finds an enum for the type in the map of defined enums
hasEnum(enums, t) ==
    /\ Len(t.PkgPath) # 0
    /\ Len(t.Name) # 0
    /\ validEnumType(t)
    /\ t.Name \in DOMAIN enums

\* getEnum: the enum found (call only when hasEnum)
getEnum(enums, t) == enums[t.Name]

(***************************************************************************)
(* obj, the type descriptor parseCtx.check builds.  A parse context c      *)
(* holds what check reads and writes: Schema.types, Schema.interfaces,     *)
(* parseCtx.unknownTypesCount, and the global maps renamedTypes and        *)
(* definedEnums as they are when Parse is called.                          *)
(***************************************************************************)
NoObj == [valueType |-> "valueTypeUndefined"]

\* the obj literal check starts from
NewObj(t) ==
    [valueType |-> "valueTypeUndefined", typeName |-> t.Name, goPkgPath |-> t.PkgPath,
     goTypeName |-> t.Name, isID |-> FALSE, objContents |-> <<>>,
     innerContent |-> NoObj, dataValueType |-> "invalid", structFieldIdx |-> 0,
     qlFieldName |-> "", implementations |-> <<>>]

\* obj.getRef
getRef(o) ==
    [NewObj([Name |-> o.goTypeName, PkgPath |-> o.goPkgPath]) EXCEPT
        !.valueType = IF o.valueType = "valueTypeObj" THEN "valueTypeObjRef"
                      ELSE "valueTypeInterfaceRef",
        !.typeName = o.typeName]

\* m[key] = value on a Go map
MapSet(m, key, value) ==
    [k \in DOMAIN m \cup {key} |-> IF k = key THEN value ELSE m[k]]

NewParseCtx(types, interfaces, renamed, enums) ==
    [types |-> types, interfaces |-> interfaces, unknownTypesCount |-> 0,
     renamedTypes |-> renamed, definedEnums |-> enums]

\* what check and checkStructField return, with the context as they leave it
Checked(c, obj, err) == [c |-> c, obj |-> obj, err |-> err]

\* the type name after renamedTypes is consulted
renamedName(c, typeName) ==
    IF typeName \in DOMAIN c.renamedTypes THEN c.renamedTypes[typeName] ELSE typeName

RECURSIVE check(_, _, _)
RECURSIVE checkStructFieldRecursive(_, _, _, _)
RECURSIVE checkImplementations(_, _, _, _)

\* parseCtx.checkStructField
checkStructField(c, field, idx) ==
    LET tag == parseFieldTagGQ(field)
        indexed(r) == IF r.obj # NoObj
                      THEN Checked(r.c, [r.obj EXCEPT !.structFieldIdx = idx], r.err)
                      ELSE r
    IN  IF field.Anonymous \/ tag.ignore \/ tag.err # ""
        THEN [c |-> c, obj |-> NoObj, err |-> IF field.Anonymous THEN "" ELSE tag.err,
              customName |-> <<>>]
        ELSE [customName |-> tag.newName] @@ indexed(check(c, field.Type, tag.isID))

\* parseCtx.checkStructFieldRecursive from field i on; typeName is the entry
\* of Schema.types that res points to.  An error ends the loop and is not
\* returned.
checkStructFieldRecursive(c, t, typeName, i) ==
    IF i > Len(t.Fields) THEN c
    ELSE LET field == t.Fields[i]
             flattened == IF field.Anonymous
                          THEN checkStructFieldRecursive(c, TypeOf(field.Type), typeName, 1)
                          ELSE c
             register(r) ==
                 IF r.err # "" THEN r.c
                 ELSE IF r.obj # NoObj
                 THEN LET name == IF Len(r.customName) > 0 THEN Flatten(r.customName)
                                  ELSE formatGoNameToQL(field.Name)
                          item == [r.obj EXCEPT !.qlFieldName = name]
                      IN  checkStructFieldRecursive(
                              [r.c EXCEPT !.types[typeName].objContents =
                                              MapSet(@, name, item)],
                              t, typeName, i + 1)
                 ELSE checkStructFieldRecursive(r.c, t, typeName, i + 1)
         IN  register(checkStructField(flattened, field, i - 1))

\* check, the loop over the types registered as implementing the interface
checkImplementations(c, typeName, implementations, i) ==
    IF i > Len(implementations) THEN Checked(c, NoObj, "")
    ELSE LET interfaceType == TypeOf(implementations[i])
             \* res.implementations = append(res.implementations, obj)
             next(r) == IF r.err # "" THEN r
                        ELSE checkImplementations(
                                 [r.c EXCEPT !.interfaces[typeName].implementations =
                                                 Append(@, r.obj)],
                                 typeName, implementations, i + 1)
         IN  IF interfaceType.Kind # "struct"
             THEN Checked(c, NoObj, "only struct types are allowed as (%s).Is(types...) arguments")
             ELSE IF interfaceType.Name = ""
             THEN Checked(c, NoObj, "inline struct not allowed in (%s).Is(types...)")
             ELSE next(check(c, implementations[i], FALSE))

\* parseCtx.check (structImplementsMap is empty and the host types declare no
\* methods)
check(c, id, hasIDTag) ==
    LET t == TypeOf(id)
        res == NewObj(t)
    IN  IF res.goPkgPath = "time" /\ res.goTypeName = "Time"
        THEN Checked(c, [res EXCEPT !.valueType = "valueTypeTime"], "")
        ELSE
        CASE t.Kind = "struct" ->
                IF hasIDTag THEN Checked(c, NoObj, "structs cannot have ID attribute")
                ELSE LET named == res.typeName # ""
                         typeName == IF named THEN renamedName(c, res.typeName)
                                     ELSE "__UnknownType" \o Itoa(c.unknownTypesCount + 1)
                         c1 == IF named THEN c
                               ELSE [c EXCEPT !.unknownTypesCount = @ + 1]
                         \* c.schema.types.Add(res) stores the entry again and gives the ref
                         add(c2) == Checked(c2, getRef(c2.types[typeName]), "")
                     IN  IF named /\ typeName \in DOMAIN c.types
                         THEN IF c.types[typeName].goPkgPath # res.goPkgPath
                              THEN Checked(c, NoObj,
                                       "cannot have 2 structs with same type name: %s(%s) != %s(%s)")
                              ELSE Checked(c, getRef(c.types[typeName]), "")
                         ELSE add(checkStructFieldRecursive(
                                  [c1 EXCEPT !.types =
                                      MapSet(@, typeName,
                                             [res EXCEPT !.valueType = "valueTypeObj",
                                                         !.typeName = typeName])],
                                  t, typeName, 1))
          [] t.Kind \in {"array", "slice", "ptr"} ->
                LET inner(r) ==
                        IF r.err # "" THEN Checked(r.c, NoObj, r.err)
                        ELSE Checked(r.c,
                                 [res EXCEPT !.valueType = IF t.Kind = "ptr" THEN "valueTypePtr"
                                                           ELSE "valueTypeArray",
                                             !.innerContent = r.obj], "")
                IN  inner(check(c, t.Elem, hasIDTag /\ t.Kind = "ptr"))
          [] t.Kind = "interface" ->
                IF hasIDTag THEN Checked(c, NoObj, "interface cannot have ID attribute")
                ELSE IF res.typeName = "" THEN Checked(c, NoObj, "inline interfaces not allowed")
                ELSE LET typeName == renamedName(c, res.typeName)
                         add(r) == IF r.err # "" THEN Checked(r.c, NoObj, r.err)
                                   ELSE Checked(r.c, getRef(r.c.interfaces[typeName]), "")
                         c1 == [c EXCEPT !.interfaces =
                                   MapSet(@, typeName,
                                          [res EXCEPT !.valueType = "valueTypeInterface",
                                                      !.typeName = typeName])]
                     IN  IF typeName \in DOMAIN c.interfaces
                         THEN IF c.interfaces[typeName].goPkgPath # res.goPkgPath
                              THEN Checked(c, NoObj,
                                       "cannot have 2 interfaces with same type name: %s(%s) != %s(%s)")
                              ELSE Checked(c, getRef(c.interfaces[typeName]), "")
                         ELSE IF t.Name \notin DOMAIN implementationMap
                         THEN Checked(c1, NoObj,
                                  "cannot register a interface without explicit implementations")
                         ELSE add(checkImplementations(c1, typeName,
                                                       implementationMap[t.Name], 1))
          [] t.Kind \in {"func", "map", "chan", "invalid", "uintptr", "complex64",
                         "complex128", "unsafe.Pointer"} ->
                Checked(c, NoObj, "unsupported value type %s")
          [] OTHER ->
                IF hasEnum(c.definedEnums, t)
                THEN Checked(c, [res EXCEPT !.valueType = "valueTypeEnum"], "")
                ELSE IF hasIDTag /\ checkValidIDKind(t.Kind) # ""
                THEN Checked(c, NoObj, checkValidIDKind(t.Kind))
                ELSE Checked(c, [res EXCEPT !.valueType = "valueTypeData",
                                            !.dataValueType = t.Kind,
                                            !.isID = hasIDTag], "")

\* NewSchema: the maps are empty and parsed is false; a root is kept as the
\* name of its entry in types
NewSchema ==
    [parsed |-> FALSE, types |-> <<>>, interfaces |-> <<>>,
     rootQuery |-> "", rootQueryValue |-> "", rootMethod |-> "", rootMethodValue |-> ""]

\* Schema.Parse with nil options; the schema is changed in place, so what a
\* failing call has written stays.  (The injection of the introspection
\* types and the checks of the resolver inputs act on no type declared here.)
Parse(s, renamed, enums, queries, methods) ==
    LET s1 == [s EXCEPT !.rootQueryValue = queries, !.rootMethodValue = methods]
        store(s2, c) == [s2 EXCEPT !.types = c.types, !.interfaces = c.interfaces]
        fail(s2, err) == [schema |-> s2, err |-> err]
        pkgOf(s2, root) == s2.types[root].goPkgPath \o s2.types[root].goTypeName
        finish(s2) ==
            IF pkgOf(s2, s2.rootQuery) = pkgOf(s2, s2.rootMethod)
            THEN fail(s2, "method and query cannot be the same struct")
            ELSE [schema |-> [s2 EXCEPT !.parsed = TRUE], err |-> ""]
        afterMethods(s2, r) ==
            IF r.err # "" THEN fail(store(s2, r.c), r.err)
            ELSE IF r.obj.valueType # "valueTypeObjRef"
            THEN fail(store(s2, r.c), "input methods must be a struct")
            ELSE finish([store(s2, r.c) EXCEPT !.rootMethod = r.obj.typeName])
        afterQueries(r) ==
            IF r.err # "" THEN fail(store(s1, r.c), r.err)
            ELSE IF r.obj.valueType # "valueTypeObjRef"
            THEN fail(store(s1, r.c), "input queries must be a struct")
            ELSE afterMethods([store(s1, r.c) EXCEPT !.rootQuery = r.obj.typeName],
                              check(r.c, methods, FALSE))
    IN  afterQueries(check(NewParseCtx(s.types, s.interfaces, renamed, enums),
                           queries, FALSE))

\* strings.TrimSpace of the names tried
TrimSpace(name) == IF name = " Foo " THEN "Foo" ELSE IF name = " " THEN "" ELSE name

\* TypeRename: the map after the call, or a panic that leaves it as it was
TypeRename(renamed, id, newName) ==
    LET t == TypeOf(id)
    IN  IF t.Name = "" \/ t.Kind # "struct" \/ Len(TrimSpace(newName)) = 0
        THEN [renamedTypes |-> renamed, panicked |-> TRUE]
        ELSE [renamedTypes |-> MapSet(renamed, t.Name, TrimSpace(newName)),
              panicked |-> FALSE]

(***************************************************************************)
(* RegisterEnum.  A label is the sequence of its bytes; the map given is   *)
(* a record of its reflect kind, the kind of its keys, its value type and  *)
(* its entries.                                                            *)
(***************************************************************************)
MaxEnumValue == 2   \* the enum values tried are 1..MaxEnumValue
MaxLabels == 2      \* the most entries a map given to RegisterEnum holds

\* the labels tried: "" and "9a" are no names, "A" and "B" are
LabelOrder == << <<>>, <<"9", "a">>, <<"A">>, <<"B">> >>
EnumLabels == {LabelOrder[i] : i \in DOMAIN LabelOrder}
EnumValues == 1..MaxEnumValue

MapOf(key, elem, entries) ==
    [Kind |-> "map", Key |-> key, Elem |-> elem, entries |-> entries]

\* the loop over the entries of the map, in the order range yields them
RECURSIVE registerEnumRange(_, _, _, _, _)
registerEnumRange(entries, order, i, res, valueKeyMap) ==
    IF i > Len(order)
    THEN [panicked |-> FALSE, res |-> res, valueKeyMap |-> valueKeyMap]
    ELSE IF Len(order[i]) = 0 \/ validGraphQlName(order[i]) # ""
            \/ entries[order[i]] \in DOMAIN valueKeyMap
         THEN [panicked |-> TRUE, res |-> <<>>, valueKeyMap |-> <<>>]
         ELSE registerEnumRange(entries, order, i + 1,
                                MapSet(res, order[i], entries[order[i]]),
                                MapSet(valueKeyMap, entries[order[i]], order[i]))

\* registerEnumCheck without the checks of the loop: every entry is stored
registerEnumCheckStoringAll(map_, order) ==
    IF Cardinality(DOMAIN map_.entries) = 0 THEN [outcome |-> "nil"]
    ELSE [outcome |-> "enum",
          enum |-> [contentType |-> TypeOf(map_.Elem),
                    typeName |-> TypeOf(map_.Elem).Name,
                    keyValue |-> map_.entries,
                    valueKey |-> [value \in {map_.entries[label] : label \in DOMAIN map_.entries}
                                    |-> CHOOSE label \in DOMAIN map_.entries :
                                            map_.entries[label] = value]]]

\* registerEnumCheck: a panic, nil, or the enum built (its qlType, which is
\* derived from keyValue alone, is left out)
registerEnumCheck(map_, order) ==
    LET contentType == TypeOf(map_.Elem)
        built(r) ==
            IF r.panicked THEN [outcome |-> "panic"]
            ELSE [outcome |-> "enum",
                  enum |-> [contentType |-> contentType, typeName |-> contentType.Name,
                            keyValue |-> r.res, valueKey |-> r.valueKeyMap]]
    IN  IF map_.Kind # "map" THEN [outcome |-> "panic"]
        ELSE IF map_.Key # "string" THEN [outcome |-> "panic"]
        ELSE IF ~validEnumType(contentType) THEN [outcome |-> "panic"]
        ELSE IF contentType.PkgPath = "" \/ contentType.Name = "" THEN [outcome |-> "panic"]
        ELSE IF Cardinality(DOMAIN map_.entries) = 0 THEN [outcome |-> "nil"]
        ELSE built(registerEnumRange(map_.entries, order, 1, <<>>, <<>>))

\* RegisterEnum: definedEnums after the call and what the call returned
RegisterEnum(enums, map_, order) ==
    LET after(r) ==
            IF r.outcome = "enum"
            THEN [definedEnums |-> MapSet(enums, r.enum.typeName, r.enum),
                  returned |-> TRUE, panicked |-> FALSE]
            ELSE [definedEnums |-> enums, returned |-> FALSE,
                  panicked |-> r.outcome = "panic"]
    IN  after(registerEnumCheck(map_, order))

(***************************************************************************)
(* The state of the builder before any call.                               *)
(***************************************************************************)
NoParse == [called |-> FALSE, queries |-> "", methods |-> "", renamed |-> <<>>,
            err |-> "", calls |-> 0]
NoEnumCall == [called |-> FALSE, map_ |-> MapOf("string", "int", <<>>),
               returned |-> FALSE, panicked |-> FALSE]

BuildIdle ==
    /\ schema = NewSchema
    /\ renamedTypes = <<>>
    /\ parseOut = NoParse
    /\ definedEnums = <<>>
    /\ enumOut = NoEnumCall

(***************************************************************************)
(* Schema.Resolve under its lock.  A goroutine calls Schema.Resolve; a     *)
(* resolver that runs inside ctx.start may call Schema.Resolve of the same *)
(* schema again, which puts a second call on the goroutine's stack.        *)
(***************************************************************************)
MaxCallers == 2   \* the goroutines that call Schema.Resolve
MaxCalls == 2     \* the most calls a goroutine makes from outside a resolver
MaxReentry == 1   \* the most calls a goroutine has nested inside resolvers

Goroutines == 1..MaxCallers

LockIdle ==
    /\ mutex = FALSE
    /\ callers = [g \in Goroutines |-> [stack |-> <<>>, made |-> 0]]

(***************************************************************************)
(* parseCtx.check, one step per transition.  checking.stack holds the      *)
(* check and checkStructFieldRecursive calls in progress, innermost last,  *)
(* and checking.ret what the call that has just returned gave back.        *)
(***************************************************************************)
\* the nesting of calls the stack of a goroutine has room for
MaxFrames == 12

NoRet == [set |-> FALSE, obj |-> NoObj, err |-> ""]
Returns(obj, err) == [set |-> TRUE, obj |-> obj, err |-> err]

NoChecking ==
    [status |-> "idle", root |-> "", c |-> NewParseCtx(<<>>, <<>>, <<>>, <<>>),
     stack |-> <<>>, ret |-> NoRet]
CheckIdle == checking = NoChecking

\* a call c.check(t, hasIDTag) that has not run yet
CheckFrame(id, hasIDTag) ==
    [at |-> "entry", id |-> id, hasIDTag |-> hasIDTag, typeName |-> "", i |-> 0,
     flatten |-> FALSE]

\* a call c.checkStructFieldRecursive(field.Type, res) on an embedded struct
FlattenFrame(id, typeName) ==
    [at |-> "fields", id |-> id, hasIDTag |-> FALSE, typeName |-> typeName, i |-> 1,
     flatten |-> TRUE]

\* check: whether the call goes on to calls of check for the fields, the
\* element or the implementations of t, or returns without one
recurses(c, id, hasIDTag) ==
    LET t == TypeOf(id)
        typeName == renamedName(c, t.Name)
    IN  CASE t.PkgPath = "time" /\ t.Name = "Time" -> FALSE
          [] t.Kind = "struct" ->
                ~hasIDTag /\ ~(t.Name # "" /\ typeName \in DOMAIN c.types)
          [] t.Kind \in {"array", "slice", "ptr"} -> TRUE
          [] t.Kind = "interface" ->
                /\ ~hasIDTag /\ t.Name # ""
                /\ typeName \notin DOMAIN c.interfaces
                /\ t.Name \in DOMAIN implementationMap
          [] OTHER -> FALSE

\* a call: one more frame, or the end of the program when the stack is full
Call(ch, frame) ==
    IF Len(ch.stack) >= MaxFrames THEN [ch EXCEPT !.status = "crashed"]
    ELSE [ch EXCEPT !.stack = Append(@, frame), !.ret = NoRet]

\* the innermost call returns
Return(ch, ret) ==
    [ch EXCEPT !.stack = SubSeq(@, 1, Len(@) - 1), !.ret = ret]

\* the innermost call goes on at another place
Goto(ch, at, typeName, i) ==
    [ch EXCEPT !.stack[Len(ch.stack)].at = at,
               !.stack[Len(ch.stack)].typeName = typeName,
               !.stack[Len(ch.stack)].i = i,
               !.ret = NoRet]

\* checkStructFieldRecursive is left: the call for an embedded struct gives
\* nothing back, check goes on to types.Add and returns the reference
leaveFields(ch, frame) ==
    IF frame.flatten THEN Return(ch, NoRet)
    ELSE Return(ch, Returns(getRef(ch.c.types[frame.typeName]), ""))

\* check from its first line to its first call of check, or to its return
enterType(ch, frame) ==
    LET t == TypeOf(frame.id)
        res == NewObj(t)
        named == res.typeName # ""
        returned(r) == Return([ch EXCEPT !.c = r.c], Returns(r.obj, r.err))
    IN  IF ~recurses(ch.c, frame.id, frame.hasIDTag)
        THEN returned(check(ch.c, frame.id, frame.hasIDTag))
        ELSE
        CASE t.Kind = "struct" ->
                LET typeName == IF named THEN renamedName(ch.c, res.typeName)
                                ELSE "__UnknownType" \o Itoa(ch.c.unknownTypesCount + 1)
                    entry == [res EXCEPT !.valueType = "valueTypeObj",
                                         !.typeName = typeName]
                IN  Goto([ch EXCEPT !.c.types = MapSet(@, typeName, entry),
                                    !.c.unknownTypesCount =
                                        IF named THEN @ ELSE @ + 1],
                         "fields", typeName, 1)
          [] t.Kind = "interface" ->
                LET typeName == renamedName(ch.c, res.typeName)
                    entry == [res EXCEPT !.valueType = "valueTypeInterface",
                                         !.typeName = typeName]
                IN  Goto([ch EXCEPT !.c.interfaces = MapSet(@, typeName, entry)],
                         "impls", typeName, 1)
          [] OTHER ->
                Call(Goto(ch, "elem", "", 0),
                     CheckFrame(t.Elem, frame.hasIDTag /\ t.Kind = "ptr"))

\* checkStructFieldRecursive at field i, up to the call that checks it
nextField(ch, frame) ==
    LET t == TypeOf(frame.id)
        field == t.Fields[frame.i]
        tag == parseFieldTagGQ(field)
        skipped == Goto(ch, "fields", frame.typeName, frame.i + 1)
    IN  IF frame.i > Len(t.Fields) THEN leaveFields(ch, frame)
        ELSE IF field.Anonymous THEN Call(skipped, FlattenFrame(field.Type, frame.typeName))
        ELSE IF tag.ignore THEN skipped
        ELSE IF tag.err # "" THEN leaveFields(ch, frame)
        ELSE Call(ch, CheckFrame(field.Type, tag.isID))

\* check at implementation i of an interface, up to the call that checks it
nextImplementation(ch, frame) ==
    LET implementations == implementationMap[TypeOf(frame.id).Name]
        interfaceType == TypeOf(implementations[frame.i])
    IN  IF frame.i > Len(implementations)
        THEN Return(ch, Returns(getRef(ch.c.interfaces[frame.typeName]), ""))
        ELSE IF interfaceType.Kind # "struct"
        THEN Return(ch, Returns(NoObj,
                        "only struct types are allowed as (%s).Is(types...) arguments"))
        ELSE IF interfaceType.Name = ""
        THEN Return(ch, Returns(NoObj, "inline struct not allowed in (%s).Is(types...)"))
        ELSE Call(ch, CheckFrame(implementations[frame.i], FALSE))

\* the caller goes on with what the call it made has returned
takeResult(ch, frame) ==
    LET t == TypeOf(frame.id)
        ret == ch.ret
    IN  CASE frame.at = "fields" ->
                LET field == t.Fields[frame.i]
                    customName == parseFieldTagGQ(field).newName
                    name == IF Len(customName) > 0 THEN Flatten(customName)
                            ELSE formatGoNameToQL(field.Name)
                    item == [ret.obj EXCEPT !.structFieldIdx = frame.i - 1,
                                            !.qlFieldName = name]
                IN  IF ret.err # "" THEN leaveFields(ch, frame)
                    ELSE IF ret.obj = NoObj
                    THEN Goto(ch, "fields", frame.typeName, frame.i + 1)
                    ELSE Goto([ch EXCEPT !.c.types[frame.typeName].objContents =
                                            MapSet(@, name, item)],
                              "fields", frame.typeName, frame.i + 1)
          [] frame.at = "impls" ->
                IF ret.err # "" THEN Return(ch, Returns(NoObj, ret.err))
                ELSE Goto([ch EXCEPT !.c.interfaces[frame.typeName].implementations =
                                        Append(@, ret.obj)],
                          "impls", frame.typeName, frame.i + 1)
          [] OTHER ->
                IF ret.err # "" THEN Return(ch, Returns(NoObj, ret.err))
                ELSE Return(ch, Returns(
                         [NewObj(t) EXCEPT
                             !.valueType = IF t.Kind = "ptr" THEN "valueTypePtr"
                                           ELSE "valueTypeArray",
                             !.innerContent = ret.obj], ""))

(***************************************************************************)
(* The query parser (query_parser.go).  The input is a sequence of bytes,  *)
(* Iter.charNr counts from 0, and every function returns the Iter as it    *)
(* leaves it next to its result.  A nil error is "".                       *)
(***************************************************************************)
ErrorUnexpectedEOF == "unexpected EOF"

Letters ==
    {"a", "b", "c", "d", "e", "f", "g", "h", "i", "j", "k", "l", "m", "n", "o", "p", "q",
     "r", "s", "t", "u", "v", "w", "x", "y", "z"}

\* the bytes of the keywords the parser asks matches for
KeywordSpelling ==
    ("..." :> <<".", ".", ".">>)
    @@ [query |-> <<"q", "u", "e", "r", "y">>,
        mutation |-> <<"m", "u", "t", "a", "t", "i", "o", "n">>,
        subscription |-> <<"s", "u", "b", "s", "c", "r", "i", "p", "t", "i", "o", "n">>]

\* Iter{data: input}
NewIter(data) == [data |-> data, charNr |-> 0]

\* Iter.eof, Iter.c, Iter.currentC and Iter.checkC
eof(it, nr) == nr >= Len(it.data)
charAt(it, nr) == it.data[nr + 1]
currentC(it) == charAt(it, it.charNr)
checkC(it, nr) ==
    IF eof(it, nr) THEN [res |-> Nul, end |-> TRUE]
    ELSE [res |-> charAt(it, nr), end |-> FALSE]

\* Iter.charNr++
advance(it) == [it EXCEPT !.charNr = @ + 1]

\* isUnicodeBom: the rune of one byte of the input is compared with U+FEFF
isUnicodeBom(input) == input = "\\uFEFF"

\* isWhiteSpace
isWhiteSpace(input) == input \in {" ", "\t"}

\* Iter.isLineTerminator: at "\r\n" the cursor moves on to the "\n"
isLineTerminator(it) ==
    IF currentC(it) = "\n" THEN [res |-> TRUE, it |-> it]
    ELSE IF currentC(it) = "\r"
    THEN [res |-> TRUE,
          it |-> IF checkC(it, it.charNr + 1).res = "\n" THEN advance(it) ELSE it]
    ELSE [res |-> FALSE, it |-> it]

RECURSIVE parseComment(_)
\* Iter.parseComment: up to the line terminator or the end of the input
parseComment(it) ==
    IF eof(it, it.charNr) THEN it
    ELSE IF isLineTerminator(it).res THEN isLineTerminator(it).it
    ELSE parseComment(advance(it))

\* Iter.isComment(true)
isComment(it) ==
    IF currentC(it) = "#" THEN [res |-> TRUE, it |-> parseComment(it)]
    ELSE [res |-> FALSE, it |-> it]

\* Iter.isIgnoredToken
isIgnoredToken(it) ==
    IF isUnicodeBom(currentC(it)) \/ isWhiteSpace(currentC(it))
    THEN [res |-> TRUE, it |-> it]
    ELSE IF isLineTerminator(it).res THEN isLineTerminator(it)
    ELSE isComment(it)

RECURSIVE matchesLoop(_, _, _)
\* the loop of Iter.matches over the keys left in oneOfMap.  A key as long
\* as the offset plus one is returned whether its last byte was compared
\* equal or not; the keys asked for differ in length, so there is one at most
matchesLoop(it, startIdx, oneOfMap) ==
    LET offset == it.charNr - startIdx
        ending == { key \in oneOfMap : Len(KeywordSpelling[key]) = offset + 1 }
        kept == { key \in oneOfMap :
                    ~(offset >= Len(KeywordSpelling[key])
                      \/ KeywordSpelling[key][offset + 1] # currentC(it)) }
    IN  IF eof(it, it.charNr) THEN [key |-> "", it |-> [it EXCEPT !.charNr = startIdx]]
        ELSE IF ending # {} THEN [key |-> CHOOSE key \in ending : TRUE, it |-> it]
        ELSE IF kept = {} THEN [key |-> "", it |-> [it EXCEPT !.charNr = startIdx]]
        ELSE matchesLoop(advance(it), startIdx, kept)

\* Iter.matches
matches(it, oneOf) == matchesLoop(it, it.charNr, oneOf)

RECURSIVE parseNameLoop(_, _)
\* the loop of Iter.parseName: allowedChars holds the lower-case letters and
\* "_" as true and the digits as false
parseNameLoop(it, name) ==
    LET ch == checkC(it, it.charNr)
        ok == ch.res \in Letters \cup {"_"} \cup Digits
        allowedAsFirstChar == ch.res \in Letters \cup {"_"}
    IN  IF ch.end THEN [name |-> name, it |-> it]
        ELSE IF ~ok THEN [name |-> name, it |-> it]
        ELSE IF name = "" /\ ~allowedAsFirstChar THEN [name |-> name, it |-> it]
        ELSE parseNameLoop(advance(it), name \o ch.res)

\* Iter.parseName
parseName(it) == parseNameLoop(it, "")

RECURSIVE parseFieldLoop(_, _)
\* the loop of Iter.parseField after the name
parseFieldLoop(it, nameOrAlias) ==
    IF eof(it, it.charNr)
    THEN [alias |-> "", name |-> "", err |-> ErrorUnexpectedEOF, it |-> it]
    ELSE IF isIgnoredToken(it).res
    THEN parseFieldLoop(advance(isIgnoredToken(it).it), nameOrAlias)
    ELSE [alias |-> IF currentC(it) = ":" THEN nameOrAlias ELSE "", name |-> "",
          err |-> "", it |-> it]

\* Iter.parseField
parseField(it) ==
    LET nameOrAlias == parseName(it)
    IN  IF nameOrAlias.name = ""
        THEN [alias |-> "", name |-> "", err |-> "field should have a name",
              it |-> nameOrAlias.it]
        ELSE parseFieldLoop(nameOrAlias.it, nameOrAlias.name)

\* Iter.parseSelection: what parseField returns is dropped
parseSelection(it) ==
    LET spread == matches(it, {"..."})
    IN  IF spread.key # ""
        THEN [err |-> "https://spec.graphql.org/June2018/#Selection",
              it |-> advance(spread.it)]
        ELSE [err |-> "", it |-> parseField(spread.it).it]

RECURSIVE parseSelectionSets(_)
\* Iter.parseSelectionSets
parseSelectionSets(it) ==
    LET selected(r) == IF r.err # "" THEN r ELSE parseSelectionSets(advance(r.it))
    IN  IF checkC(it, it.charNr).end THEN [err |-> ErrorUnexpectedEOF, it |-> it]
        ELSE IF isIgnoredToken(it).res
        THEN parseSelectionSets(advance(isIgnoredToken(it).it))
        ELSE IF currentC(it) = "}" THEN [err |-> "", it |-> it]
        ELSE selected(parseSelection(it))

\* what parseOperator returns: the operator, nil when there is an error
Parsed(res, err, it) == [res |-> res, err |-> err, it |-> it]
NilOperator == [operationType |-> "", name |-> ""]

RECURSIVE parseOperatorLoop(_, _, _)
\* the loop of Iter.parseOperator
parseOperatorLoop(it, stage, res) ==
    LET ch == currentC(it)
        next(to) == parseOperatorLoop(advance(it), to, res)
        fail(err) == Parsed(NilOperator, err, it)
        typed(m) ==
            IF m.key # ""
            THEN parseOperatorLoop(advance(m.it), "name", [res EXCEPT !.operationType = m.key])
            ELSE Parsed(NilOperator, "unknown operation type", m.it)
        named(n) ==
            parseOperatorLoop(advance(n.it), "variableDefinitions",
                              [res EXCEPT !.name = n.name])
        selected(r) == IF r.err # "" THEN Parsed(NilOperator, r.err, r.it)
                       ELSE Parsed(res, "", r.it)
    IN  IF eof(it, it.charNr)
        THEN IF stage # "operationType" THEN fail(ErrorUnexpectedEOF)
             ELSE Parsed(res, "", it)
        ELSE IF isIgnoredToken(it).res
        THEN parseOperatorLoop(advance(isIgnoredToken(it).it), stage, res)
        ELSE
        CASE stage = "operationType" ->
                IF ch = "{" THEN next("selectionSets")
                ELSE typed(matches(it, {"query", "mutation", "subscription"}))
          [] stage = "name" ->
                IF ch = "(" THEN next("variableDefinitions")
                ELSE IF ch = "@" THEN next("directives")
                ELSE IF ch = "{" THEN next("selectionSets")
                ELSE named(parseName(it))
          [] stage = "variableDefinitions" ->
                IF ch = "@" THEN next("directives")
                ELSE IF ch = "{" THEN next("selectionSets")
                ELSE fail("https://spec.graphql.org/June2018/#VariableDefinitions")
          [] stage = "directives" ->
                IF ch = "{" THEN next("selectionSets")
                ELSE fail("https://spec.graphql.org/June2018/#sec-Language.Directives")
          [] OTHER ->
                selected(parseSelectionSets(it))

\* Iter.parseOperator
parseOperator(it) ==
    parseOperatorLoop(it, "operationType", [operationType |-> "query", name |-> ""])

\* ParseQuery
ParseQuery(input) == parseOperator(NewIter(input))

\* no call of the query parser yet
NoQueryCall == [fn |-> "", kind |-> "", data |-> <<>>]
ParserIdle == queryCall = NoQueryCall

(***************************************************************************)
(* Actions.                                                                *)
(***************************************************************************)
\* NewSchema, the caller's choice of Schema.MaxDepth, and Schema.Parse with
\* one of the host values
Init ==
    /\ MaxDepth \in DepthValues
    /\ rootQueryValue \in Hosts
    /\ pc = "idle"
    /\ request = NoRequest
    /\ response = NoResponse
    /\ bytecodeCtx = NewBytecodeCtx
    /\ bytecodeOut = NoBytecodeOut
    /\ http = NoHttp
    /\ walk = NoWalk
    /\ BuildIdle
    /\ ParserIdle
    /\ CheckIdle
    /\ CallerIdle
    /\ LockIdle

\* a caller calls Schema.Resolve(query, operatorTarget)
CallResolve ==
    /\ pc = "idle"
    /\ \E req \in Requests : request' = req
    /\ pc' = "resolving"
    /\ response' = NoResponse
    /\ UNCHANGED <<MaxDepth, rootQueryValue, bytecodeVars, walk, buildVars, lockVars,
                   callerVars, checkVars, parserVars>>

\* Schema.Resolve runs and returns
ReturnResolve ==
    /\ pc = "resolving"
    /\ \E operatorsList \in Orderings(DOMAIN request.doc.operatorsMap),
          argOrder \in Orderings(documentArguments(request.doc)) :
         response' = Resolve(Ctx(MaxDepth, rootQueryValue, request.doc, argOrder),
                             request.doc, request.operatorTarget, operatorsList)
    /\ pc' = "idle"
    /\ UNCHANGED <<MaxDepth, rootQueryValue, request, bytecodeVars, walk, buildVars,
                   lockVars, callerVars, checkVars, parserVars>>

Next == CallResolve \/ ReturnResolve

Spec == Init /\ [][Next]_vars

(***************************************************************************)
(* The bytecode request path: direct BytecodeResolve calls and HandleRequest *)
(* calls on one reused BytecodeCtx.  A query text is held as the sequence  *)
(* of its operators in the order of the text.                              *)
(***************************************************************************)
TwoOperators ==
    <<Operator("query", "Foo", <<Sub("a", <<Leaf("foo")>>)>>),
      Operator("query", "Bar", <<Sub("a", <<Leaf("bar")>>)>>)>>

BytecodeQueries ==
    { <<Operator("query", "", <<Leaf("p")>>)>>,
      <<Operator("query", "", <<Leaf("id")>>)>>,
      <<Operator("query", "", <<Leaf("sid")>>)>>,
      <<Operator("query", "", <<Leaf("i")>>)>>,
      <<Operator("query", "", <<Sub("a", <<Leaf("bar")>>)>>)>>,
      <<Operator("query", "", <<Leaf("nope"), Leaf("s")>>)>>,
      <<Operator("query", "", <<Leaf("s"), Leaf("t")>>)>>,
      TwoOperators }

\* one request of a batch: its query and its operationName
Entry(query, operationName) == [query |-> query, operationName |-> operationName]

Entries ==
    { Entry(q, "") : q \in BytecodeQueries } \cup { Entry(TwoOperators, "Bar") }

Batches == UNION { [1..n -> Entries] : n \in 1..MaxBatch }

\* fmt.Errorf(format, args...).Error()
Sprintf(e) ==
    IF e.format = "%s does not exists on %s"
    THEN e.args[1] \o " does not exists on " \o e.args[2]
    ELSE e.format

\* the response envelope of one request
Envelope(data, errors) ==
    Flatten(<<"{\"data\":">> \o data \o <<",\"errors\":[">>
            \o JoinComma([i \in DOMAIN errors |-> <<Quote(Sprintf(errors[i]))>>])
            \o <<"],\"extensions\":{}}">>)

RECURSIVE JoinText(_)
JoinText(texts) ==
    IF Len(texts) = 0 THEN ""
    ELSE IF Len(texts) = 1 THEN texts[1]
    ELSE texts[1] \o "," \o JoinText(Tail(texts))

\* the hosts of the bytecode path: the pointer field nil or set
BytecodeHosts == { QVal(p, NilSlice) : p \in {NilPtr, PtrTo(StrVal("str"))} }

InitBytecode ==
    /\ MaxDepth = DefaultMaxDepth
    /\ rootQueryValue \in BytecodeHosts
    /\ pc = "idle"
    /\ request = NoRequest
    /\ response = NoResponse
    /\ bytecodeCtx = NewBytecodeCtx
    /\ bytecodeOut = NoBytecodeOut
    /\ http = NoHttp
    /\ walk = NoWalk
    /\ BuildIdle
    /\ ParserIdle
    /\ CheckIdle
    /\ CallerIdle
    /\ LockIdle

\* what the call that left the context returned
Out(query, opts, c) ==
    [query |-> query, opts |-> opts, result |-> c.result, errors |-> c.query.Errors,
     called |-> TRUE]

\* the slice the last call returned to its caller, as the next call finds
\* it: its bytes then, and whether that call stopped before the end of its
\* instructions
Held ==
    IF bytecodeOut.called /\ ~http.returned
    THEN [called |-> TRUE, result |-> bytecodeOut.result,
          stopped |-> bytecodeCtx.charNr < Len(bytecodeCtx.query.Res)]
    ELSE NoHeld

\* a caller calls ctx.BytecodeResolve(query, opts)
CallBytecodeResolve ==
    /\ http.pc = "idle"
    /\ \E query \in BytecodeQueries, noMeta \in BOOLEAN :
         /\ bytecodeCtx' = BytecodeResolve(bytecodeCtx, rootQueryValue, rootQuery, query,
                                           [NoMeta |-> noMeta])
         /\ bytecodeOut' = Out(query, [NoMeta |-> noMeta], bytecodeCtx')
    /\ held' = Held
    /\ http' = NoHttp
    /\ UNCHANGED <<MaxDepth, rootQueryValue, resolveVars, walk, buildVars, lockVars,
                   checkVars, parserVars>>

\* HandleRequest is called with one request or with a batch of requests
HandleRequest ==
    /\ http.pc = "idle"
    /\ \E entries \in Batches, isBatch \in BOOLEAN :
         /\ ~isBatch => Len(entries) = 1
         /\ http' = [pc |-> "resolving", isBatch |-> isBatch, entries |-> entries,
                     envelopes |-> <<>>, body |-> "", returned |-> FALSE]
    /\ held' = NoHeld
    /\ UNCHANGED <<MaxDepth, rootQueryValue, resolveVars, bytecodeCtx, bytecodeOut, walk, buildVars,
                   lockVars, checkVars, parserVars>>

\* HandleRequest resolves the next request and copies its envelope to the body
HandleRequestEntry ==
    /\ http.pc = "resolving"
    /\ Len(http.envelopes) < Len(http.entries)
    /\ bytecodeCtx' = BytecodeResolve(bytecodeCtx, rootQueryValue, rootQuery,
                                      http.entries[Len(http.envelopes) + 1].query,
                                      [NoMeta |-> TRUE])
    /\ bytecodeOut' = Out(http.entries[Len(http.envelopes) + 1].query, [NoMeta |-> TRUE],
                          bytecodeCtx')
    /\ http' = [http EXCEPT !.envelopes =
                   Append(@, Envelope(bytecodeCtx'.result, bytecodeCtx'.query.Errors))]
    /\ held' = NoHeld
    /\ UNCHANGED <<MaxDepth, rootQueryValue, resolveVars, walk, buildVars, lockVars,
                   checkVars, parserVars>>

\* HandleRequest returns the envelope, or the array of the envelopes of a batch
HandleRequestReturn ==
    /\ http.pc = "resolving"
    /\ Len(http.envelopes) = Len(http.entries)
    /\ http' = [http EXCEPT !.pc = "idle", !.returned = TRUE,
                            !.body = IF http.isBatch
                                     THEN "[" \o JoinText(http.envelopes) \o "]"
                                     ELSE http.envelopes[1]]
    /\ UNCHANGED <<MaxDepth, rootQueryValue, resolveVars, bytecodeCtx, bytecodeOut, walk, buildVars,
                   lockVars, callerVars, checkVars, parserVars>>

NextBytecode ==
    CallBytecodeResolve \/ HandleRequest \/ HandleRequestEntry \/ HandleRequestReturn

SpecBytecode == InitBytecode /\ [][NextBytecode]_vars

(***************************************************************************)
(* The depth guard, one resolveSelection call per step.  The query nests   *)
(* walk.nest selection sets along object fields, {a{next{next{..{bar}}}}}, *)
(* and the host holds an object at every one of them.  walk.level is the   *)
(* nesting depth of the selection set the next call is given (the root    *)
(* selection set is 0) and walk.dept the uint8 the call is given.          *)
(***************************************************************************)
WalkDepths == DepthValues \cup {DefaultMaxDepth - 1}

InitDepth ==
    /\ MaxDepth \in WalkDepths
    /\ rootQueryValue \in BytecodeHosts
    /\ pc = "idle"
    /\ request = NoRequest
    /\ response = NoResponse
    /\ bytecodeCtx = NewBytecodeCtx
    /\ bytecodeOut = NoBytecodeOut
    /\ http = NoHttp
    /\ walk = NoWalk
    /\ BuildIdle
    /\ ParserIdle
    /\ CheckIdle
    /\ CallerIdle
    /\ LockIdle

\* Ctx.start: resolveSelection(operator.selection, rootQueryValue, rootQuery, 0)
StartWalk ==
    /\ walk.status = "idle"
    /\ \E nest \in 1..MaxNest :
         walk' = [status |-> "walking", nest |-> nest, level |-> 0, dept |-> 0,
                  opened |-> 0, cut |-> -1]
    /\ UNCHANGED <<MaxDepth, rootQueryValue, resolveVars, bytecodeVars, buildVars, lockVars,
                   callerVars, checkVars, parserVars>>

\* one call of Ctx.resolveSelection: "null" at the depth limit; else the
\* selection set is opened and, unless it is the innermost, resolveField and
\* resolveFieldDataValue hand the incremented dept to the call for the next
EnterSelection ==
    /\ walk.status = "walking"
    /\ walk' = IF depthExceeded(walk.dept, MaxDepth)
               THEN [walk EXCEPT !.status = "returned", !.cut = walk.level]
               ELSE IF walk.level + 1 = walk.nest
               THEN [walk EXCEPT !.status = "returned", !.opened = @ + 1]
               ELSE [walk EXCEPT !.opened = @ + 1, !.level = @ + 1,
                                 !.dept = nextDept(walk.dept)]
    /\ UNCHANGED <<MaxDepth, rootQueryValue, resolveVars, bytecodeVars, buildVars, lockVars,
                   callerVars, checkVars, parserVars>>

NextDepth == StartWalk \/ EnterSelection

SpecDepth == InitDepth /\ [][NextDepth]_vars

(***************************************************************************)
(* The schema builder: TypeRename and Parse on one Schema made by          *)
(* NewSchema.                                                              *)
(***************************************************************************)
MaxParses == 2    \* the most Parse calls made on the schema
MaxRenames == 1   \* the most types renamed

QueryRoots == {"Q", "QTwice", "QRenamed", "QItems", "QTagged", "QNode", "QMap",
               "QHidden", "ItemA", "int"}
MethodRoots == {"M", "ItemB", "Q"}
RenamedHosts == {"Bar", "Inner", "int"}
NewNames == {"Foo", " Foo ", " "}

ResolverIdle ==
    /\ MaxDepth = DefaultMaxDepth
    /\ rootQueryValue = Invalid
    /\ pc = "idle"
    /\ request = NoRequest
    /\ response = NoResponse
    /\ bytecodeCtx = NewBytecodeCtx
    /\ bytecodeOut = NoBytecodeOut
    /\ http = NoHttp
    /\ walk = NoWalk

InitParse == ResolverIdle /\ BuildIdle /\ LockIdle /\ CallerIdle /\ CheckIdle /\ ParserIdle

\* the program calls TypeRename(host{}, newName); a panic changes nothing
CallTypeRename ==
    /\ \E id \in RenamedHosts, newName \in NewNames :
         /\ renamedTypes' = TypeRename(renamedTypes, id, newName).renamedTypes
         /\ Cardinality(DOMAIN renamedTypes') <= MaxRenames
    /\ UNCHANGED <<MaxDepth, rootQueryValue, resolveVars, bytecodeVars, walk, schema,
                   parseOut, definedEnums, enumOut, lockVars, callerVars,
                   checkVars, parserVars>>

\* the program calls schema.Parse(queries{}, methods{}, nil)
CallParse ==
    /\ parseOut.calls < MaxParses
    /\ \E queries \in QueryRoots, methods \in MethodRoots :
         LET after(r) ==
                 /\ schema' = r.schema
                 /\ parseOut' = [called |-> TRUE, queries |-> queries,
                                 methods |-> methods, renamed |-> renamedTypes,
                                 err |-> r.err, calls |-> parseOut.calls + 1]
         IN  after(Parse(schema, renamedTypes, definedEnums, queries, methods))
    /\ UNCHANGED <<MaxDepth, rootQueryValue, resolveVars, bytecodeVars, walk,
                   renamedTypes, definedEnums, enumOut, lockVars,
                   callerVars, checkVars, parserVars>>

NextParse == CallTypeRename \/ CallParse

SpecParse == InitParse /\ [][NextParse]_vars

(***************************************************************************)
(* The enum registry: RegisterEnum calls on the global definedEnums.       *)
(***************************************************************************)
\* the maps given: every map[string]pkga.Color and map[string]pkgb.Color, a
\* map[string]int with and without an entry, a map[int]pkga.Color, and a
\* value that is no map
EnumEntries ==
    UNION { [keys -> EnumValues] :
            keys \in {k \in SUBSET EnumLabels : Cardinality(k) <= MaxLabels} }
EnumInputs ==
    { MapOf("string", elem, entries) :
        elem \in {"ColorA", "ColorB"}, entries \in EnumEntries }
    \cup { MapOf("string", "int", <<>>),
           MapOf("string", "int", [label \in {<<"A">>} |-> 1]),
           MapOf("int", "ColorA", <<>>),
           [Kind |-> "slice", Key |-> "", Elem |-> "ColorA", entries |-> <<>>] }

\* the keys of the entries in the order of LabelOrder
RangeOrder(entries) == SelectSeq(LabelOrder, LAMBDA label : label \in DOMAIN entries)
Reverse(seq) == [i \in 1..Len(seq) |-> seq[Len(seq) + 1 - i]]

InitEnum == ResolverIdle /\ BuildIdle /\ LockIdle /\ CallerIdle /\ CheckIdle /\ ParserIdle

\* the program calls RegisterEnum(map_); range yields the entries in an order
\* the language leaves open
CallRegisterEnum ==
    /\ \E map_ \in EnumInputs, backwards \in BOOLEAN :
         LET after(r) ==
                 /\ definedEnums' = r.definedEnums
                 /\ enumOut' = [called |-> TRUE, map_ |-> map_,
                                returned |-> r.returned, panicked |-> r.panicked]
         IN  after(RegisterEnum(definedEnums, map_,
                                IF backwards THEN Reverse(RangeOrder(map_.entries))
                                ELSE RangeOrder(map_.entries)))
    /\ UNCHANGED <<MaxDepth, rootQueryValue, resolveVars, bytecodeVars, walk, schema,
                   renamedTypes, parseOut, lockVars, callerVars,
                   checkVars, parserVars>>

NextEnum == CallRegisterEnum

SpecEnum == InitEnum /\ [][NextEnum]_vars

(***************************************************************************)
(* Concurrent Schema.Resolve calls on one Schema.                          *)
(***************************************************************************)
\* one request for each way Schema.Resolve returns, with and without a
\* resolver in the operation
LockRequests ==
    { [doc |-> Document(<<Err("unexpected EOF", <<>>)>>, {}), operatorTarget |-> ""],
      [doc |-> Document(<<>>, {}), operatorTarget |-> ""],
      [doc |-> Document(<<>>, {Operator("query", "", <<Leaf("s")>>)}), operatorTarget |-> ""],
      [doc |-> Document(<<>>, {Operator("query", "", <<Leaf("m")>>)}), operatorTarget |-> ""] }
    \cup { [doc |-> Document(<<>>, {Operator("query", "Foo", <<Leaf("me")>>),
                                    Operator("query", "Bar", <<Leaf("i")>>),
                                    Operator("query", "Baz", <<Leaf("arr")>>)}),
            operatorTarget |-> t] : t \in {"", "Foo", "Bar", "Qux"} }

\* Schema.Resolve from line 14 on: whether ctx.start is called
StartsOperator(req) ==
    /\ Len(req.doc.errs) = 0
    /\ \/ Cardinality(DOMAIN req.doc.operatorsMap) = 1
       \/ /\ Cardinality(DOMAIN req.doc.operatorsMap) > 1
          /\ req.operatorTarget \in DOMAIN req.doc.operatorsMap

\* whether ctx.start reaches value.Call of a resolver for the request
CallsResolver(req) ==
    \E operatorsList \in Orderings(DOMAIN req.doc.operatorsMap),
       argOrder \in Orderings(documentArguments(req.doc)) :
        Resolve(Ctx(MaxDepth, rootQueryValue, req.doc, argOrder),
                req.doc, req.operatorTarget, operatorsList).calls # <<>>

Top(g) == callers[g].stack[Len(callers[g].stack)]
Running(g) == Len(callers[g].stack) > 0
Move(g, to) == [callers EXCEPT ![g].stack[Len(callers[g].stack)].pc = to]

InitLock ==
    /\ MaxDepth = DefaultMaxDepth
    /\ rootQueryValue = QVal(NilPtr, NilSlice)
    /\ pc = "idle"
    /\ request = NoRequest
    /\ response = NoResponse
    /\ bytecodeCtx = NewBytecodeCtx
    /\ bytecodeOut = NoBytecodeOut
    /\ http = NoHttp
    /\ walk = NoWalk
    /\ BuildIdle
    /\ ParserIdle
    /\ CheckIdle
    /\ CallerIdle
    /\ LockIdle

\* goroutine g calls s.Resolve(query, operatorTarget) and reaches s.m.Lock()
EnterResolve(g) ==
    /\ ~Running(g)
    /\ callers[g].made < MaxCalls
    /\ \E req \in LockRequests :
         callers' = [callers EXCEPT ![g].stack = <<[pc |-> "lock", request |-> req]>>,
                                    ![g].made = @ + 1]
    /\ UNCHANGED <<MaxDepth, rootQueryValue, resolveVars, bytecodeVars, walk, buildVars,
                   mutex, callerVars, checkVars, parserVars>>

\* s.m.Lock() returns: the mutex was unlocked and is now locked
Lock(g) ==
    /\ Running(g)
    /\ Top(g).pc = "lock"
    /\ ~mutex
    /\ mutex' = TRUE
    /\ callers' = Move(g, "locked")
    /\ UNCHANGED <<MaxDepth, rootQueryValue, resolveVars, bytecodeVars, walk, buildVars,
                   callerVars, checkVars, parserVars>>

\* ParseQueryAndCheckNames and the switch on len(operatorsMap): a return, or
\* ctx.start
SelectOperator(g) ==
    /\ Running(g)
    /\ Top(g).pc = "locked"
    /\ callers' = Move(g, IF StartsOperator(Top(g).request) THEN "started" ELSE "returning")
    /\ UNCHANGED <<MaxDepth, rootQueryValue, resolveVars, bytecodeVars, walk, buildVars,
                   mutex, callerVars, checkVars, parserVars>>

\* inside ctx.start a resolver of the host calls s.Resolve of the same schema
ResolverCallsResolve(g) ==
    /\ Running(g)
    /\ Top(g).pc = "started"
    /\ CallsResolver(Top(g).request)
    /\ Len(callers[g].stack) <= MaxReentry
    /\ \E req \in LockRequests :
         callers' = [callers EXCEPT
                        ![g].stack = Append(@, [pc |-> "lock", request |-> req])]
    /\ UNCHANGED <<MaxDepth, rootQueryValue, resolveVars, bytecodeVars, walk, buildVars,
                   mutex, callerVars, checkVars, parserVars>>

\* ctx.start returns, or a panic leaves it
StartReturns(g) ==
    /\ Running(g)
    /\ Top(g).pc = "started"
    /\ callers' = Move(g, "returning")
    /\ UNCHANGED <<MaxDepth, rootQueryValue, resolveVars, bytecodeVars, walk, buildVars,
                   mutex, callerVars, checkVars, parserVars>>

\* the deferred s.m.Unlock() runs and Schema.Resolve returns to its caller
Unlock(g) ==
    /\ Running(g)
    /\ Top(g).pc = "returning"
    /\ mutex' = FALSE
    /\ callers' = [callers EXCEPT ![g].stack = SubSeq(@, 1, Len(@) - 1)]
    /\ UNCHANGED <<MaxDepth, rootQueryValue, resolveVars, bytecodeVars, walk, buildVars,
                   callerVars, checkVars, parserVars>>

NextLock ==
    \E g \in Goroutines :
        \/ EnterResolve(g)
        \/ Lock(g)
        \/ SelectOperator(g)
        \/ ResolverCallsResolve(g)
        \/ StartReturns(g)
        \/ Unlock(g)

\* a goroutine that can run does run, and sync.Mutex hands the lock to a
\* goroutine that keeps waiting for it (its starvation mode)
SpecLock ==
    /\ InitLock
    /\ [][NextLock]_vars
    /\ \A g \in Goroutines :
         /\ WF_vars(SelectOperator(g) \/ StartReturns(g) \/ Unlock(g))
         /\ SF_vars(Lock(g))

(***************************************************************************)
(* The registration of a type graph, step by step: c.check(root, false) on *)
(* a new schema, as Schema.Parse calls it for its roots.                   *)
(***************************************************************************)
CheckRoots == {"QTree", "QPing", "QZoo", "QBad", "QList", "Tree", "Animal", "Dog",
               "PtrPing", "QTwice", "QNode", "QMap", "QHidden"}

InitCheck == ResolverIdle /\ BuildIdle /\ LockIdle /\ CallerIdle /\ CheckIdle /\ ParserIdle

Frame == checking.stack[Len(checking.stack)]
Runs == checking.status = "running" /\ checking.stack # <<>>

\* Schema.Parse calls c.check for a root
CallCheck ==
    /\ checking.status = "idle"
    /\ \E root \in CheckRoots :
         checking' = [status |-> "running", root |-> root,
                      c |-> NewParseCtx(schema.types, schema.interfaces, renamedTypes,
                                        definedEnums),
                      stack |-> <<CheckFrame(root, FALSE)>>, ret |-> NoRet]
    /\ UNCHANGED <<MaxDepth, rootQueryValue, resolveVars, bytecodeVars, walk, buildVars,
                   lockVars, callerVars, parserVars>>

\* a check call runs up to its first call or to its return
EnterType ==
    /\ Runs /\ Frame.at = "entry"
    /\ checking' = enterType(checking, Frame)
    /\ UNCHANGED <<MaxDepth, rootQueryValue, resolveVars, bytecodeVars, walk, buildVars,
                   lockVars, callerVars, parserVars>>

\* the loop over the fields of a struct comes to its next field
NextField ==
    /\ Runs /\ Frame.at = "fields" /\ ~checking.ret.set
    /\ checking' = nextField(checking, Frame)
    /\ UNCHANGED <<MaxDepth, rootQueryValue, resolveVars, bytecodeVars, walk, buildVars,
                   lockVars, callerVars, parserVars>>

\* the loop over the implementations of an interface comes to the next one
NextImplementation ==
    /\ Runs /\ Frame.at = "impls" /\ ~checking.ret.set
    /\ checking' = nextImplementation(checking, Frame)
    /\ UNCHANGED <<MaxDepth, rootQueryValue, resolveVars, bytecodeVars, walk, buildVars,
                   lockVars, callerVars, parserVars>>

\* a call has returned and its caller goes on
TakeResult ==
    /\ Runs /\ checking.ret.set
    /\ checking' = takeResult(checking, Frame)
    /\ UNCHANGED <<MaxDepth, rootQueryValue, resolveVars, bytecodeVars, walk, buildVars,
                   lockVars, callerVars, parserVars>>

\* the outermost check returns to Schema.Parse
ReturnCheck ==
    /\ checking.status = "running" /\ checking.stack = <<>> /\ checking.ret.set
    /\ checking' = [checking EXCEPT !.status = "returned"]
    /\ UNCHANGED <<MaxDepth, rootQueryValue, resolveVars, bytecodeVars, walk, buildVars,
                   lockVars, callerVars, parserVars>>

NextCheck ==
    CallCheck \/ EnterType \/ NextField \/ NextImplementation \/ TakeResult
        \/ ReturnCheck

\* a goroutine that can take a step takes it
SpecCheck == InitCheck /\ [][NextCheck]_vars /\ WF_vars(NextCheck)

(***************************************************************************)
(* The calls of the query parser that are tried: ParseQuery on documents   *)
(* made of a keyword, a name and field names with ignored tokens between   *)
(* them, on what is left of such a document when its end is cut off and on *)
(* complete documents that are no operation; parseName and                 *)
(* validGraphQlName on short byte strings; matches on the keywords, their  *)
(* beginnings and their near misses.                                       *)
(***************************************************************************)
MaxNameLen == 3
MaxFields == 2

\* the UTF-8 encoding of U+FEFF
Bom == <<"\\xEF", "\\xBB", "\\xBF">>

\* runs of ignored tokens: none, white space, line terminators, a comment,
\* the byte order mark
Separators ==
    {<<>>, <<" ">>, <<" ", " ">>, <<"\t">>, <<"\n">>, <<"\r", "\n">>, <<"#", "c", "\n">>,
     Bom}

Keywords == {"query", "mutation", "subscription"}
OperationNames == {<<>>, <<"f", "o", "o">>}
SelectedFieldNames == {<<"a">>, <<"b", "c">>}
FieldLists == UNION { [1..n -> SelectedFieldNames] : n \in 1..MaxFields }

RECURSIVE Joined(_, _)
\* the parts with the separator between them
Joined(parts, sep) ==
    IF Len(parts) = 0 THEN <<>>
    ELSE IF Len(parts) = 1 THEN parts[1]
    ELSE parts[1] \o sep \o Joined(Tail(parts), sep)

\* a document: keyword ("" for none), name, fields and the run of ignored
\* tokens that stands wherever one may stand; where two names meet there is
\* a space at least
DocumentText(doc) ==
    LET gap == IF doc.sep = <<>> THEN <<" ">> ELSE doc.sep
        head == IF doc.keyword = "" THEN <<>>
                ELSE KeywordSpelling[doc.keyword]
                         \o (IF doc.name = <<>> THEN <<>> ELSE gap \o doc.name)
    IN  doc.sep \o head \o doc.sep \o <<"{">> \o doc.sep \o Joined(doc.fields, gap)
            \o doc.sep \o <<"}">> \o doc.sep

Documents ==
    { doc \in [keyword : Keywords \cup {""}, name : OperationNames,
               fields : FieldLists, sep : Separators] :
        doc.keyword = "" => doc.name = <<>> }

\* the document with no ignored token that can be left out
Bare(doc) == [doc EXCEPT !.sep = <<>>]

\* complete documents that are no operation: no field, a field that is no
\* name, no keyword that there is, no opening brace
Malformed ==
    {<<"{", "}">>, <<"q", "u", "e", "r", "y", "{", "}">>, <<"{", "1", "}">>,
     <<"{", "-", "}">>, <<"{", ":", "}">>, <<"x", "{", "a", "}">>, <<"}">>}

\* a document that ends in a fragment spread, for its beginnings
SpreadDocument == <<"{", "a", " ", ".", ".", ".", "f", "}">>

\* what is left of a document when its end is cut off: an operation has
\* begun and its selection set is not closed
Truncated ==
    UNION { { SubSeq(text, 1, n) : n \in 1..(Len(text) - 1) } :
              text \in { DocumentText(Bare(doc)) : doc \in Documents }
                           \cup {SpreadDocument} }

NoDocument == [keyword |-> "", name |-> <<>>, fields |-> <<>>, sep |-> <<>>]

NameAlphabet == {"a", "A", "_", "1", "-"}
NameInputs == UNION { [1..n -> NameAlphabet] : n \in 0..MaxNameLen }

\* a keyword, its beginnings, the keyword with another last byte, with
\* another first byte and with a byte after it
MatchInputs ==
    UNION { { SubSeq(KeywordSpelling[key], 1, n) : n \in 0..Len(KeywordSpelling[key]) }
            \cup { [KeywordSpelling[key] EXCEPT ![Len(KeywordSpelling[key])] = "x"],
                   [KeywordSpelling[key] EXCEPT ![1] = "x"],
                   KeywordSpelling[key] \o <<"x">> } : key \in DOMAIN KeywordSpelling }

InitQueryParser ==
    ResolverIdle /\ BuildIdle /\ LockIdle /\ CallerIdle /\ CheckIdle /\ ParserIdle

\* what a ParseQuery call gave; every call below is the first on its Iter
QueryCall(kind, doc, data) ==
    [fn |-> "ParseQuery", kind |-> kind, doc |-> doc, data |-> data,
     res |-> ParseQuery(data).res, err |-> ParseQuery(data).err]

\* ParseQuery(input) on a well-formed document
CallParseQuery ==
    /\ ParserIdle
    /\ \E doc \in Documents :
         queryCall' = QueryCall("wellformed", doc, DocumentText(doc))
    /\ UNCHANGED <<MaxDepth, rootQueryValue, resolveVars, bytecodeVars, walk, buildVars,
                   lockVars, callerVars, checkVars>>

\* ParseQuery(input) on a document whose end is cut off
CallParseQueryTruncated ==
    /\ ParserIdle
    /\ \E data \in Truncated :
         queryCall' = QueryCall("truncated", NoDocument, data)
    /\ UNCHANGED <<MaxDepth, rootQueryValue, resolveVars, bytecodeVars, walk, buildVars,
                   lockVars, callerVars, checkVars>>

\* ParseQuery(input) on a complete document that is no operation
CallParseQueryMalformed ==
    /\ ParserIdle
    /\ \E data \in Malformed :
         queryCall' = QueryCall("malformed", NoDocument, data)
    /\ UNCHANGED <<MaxDepth, rootQueryValue, resolveVars, bytecodeVars, walk, buildVars,
                   lockVars, callerVars, checkVars>>

\* iter.parseName() at the start of the bytes
CallParseName ==
    /\ ParserIdle
    /\ \E data \in NameInputs :
         queryCall' = [fn |-> "parseName", kind |-> "", data |-> data,
                       name |-> parseName(NewIter(data)).name,
                       charNr |-> parseName(NewIter(data)).it.charNr]
    /\ UNCHANGED <<MaxDepth, rootQueryValue, resolveVars, bytecodeVars, walk, buildVars,
                   lockVars, callerVars, checkVars>>

\* validGraphQlName(name)
CallValidGraphQlName ==
    /\ ParserIdle
    /\ \E data \in NameInputs :
         queryCall' = [fn |-> "validGraphQlName", kind |-> "", data |-> data,
                       err |-> validGraphQlName(data)]
    /\ UNCHANGED <<MaxDepth, rootQueryValue, resolveVars, bytecodeVars, walk, buildVars,
                   lockVars, callerVars, checkVars>>

\* iter.matches(oneOf...) with the cursor at the start of the bytes or after
\* a space
CallMatches ==
    /\ ParserIdle
    /\ \E data \in MatchInputs, pad \in {<<>>, <<" ">>},
          oneOf \in {Keywords, {"..."}} :
         LET it == [data |-> pad \o data, charNr |-> Len(pad)]
         IN  queryCall' = [fn |-> "matches", kind |-> "", data |-> it.data,
                           startIdx |-> it.charNr, oneOf |-> oneOf,
                           key |-> matches(it, oneOf).key,
                           charNr |-> matches(it, oneOf).it.charNr]
    /\ UNCHANGED <<MaxDepth, rootQueryValue, resolveVars, bytecodeVars, walk, buildVars,
                   lockVars, callerVars, checkVars>>

NextQueryParser ==
    CallParseQuery \/ CallParseQueryTruncated \/ CallParseQueryMalformed
        \/ CallParseName \/ CallValidGraphQlName \/ CallMatches

SpecQueryParser == InitQueryParser /\ [][NextQueryParser]_vars

(***************************************************************************)
(* Properties of Schema.Resolve.                                           *)
(***************************************************************************)
\* a Resolve call has returned (or panicked) and response is its outcome
Returned == pc = "idle" /\ response # NoResponse

OperatorNames == DOMAIN request.doc.operatorsMap
SeveralOperators == Len(request.doc.errs) = 0 /\ Cardinality(OperatorNames) > 1

\* the error names every one of the names
ErrorLists(e, names) == \A n \in names : \E i \in DOMAIN e.args : e.args[i] = n

\* C1: given several operations and an empty target, Resolve runs none of
\* them, returns "{}" and returns an error that lists the names of the
\* available operators.
C1_NoTargetErrorListsOperators ==
    (Returned /\ SeveralOperators /\ request.operatorTarget = "") =>
        /\ response.started = <<>>
        /\ Flatten(response.res) = "{}"
        /\ \E i \in DOMAIN response.errors :
               ErrorLists(response.errors[i], OperatorNames)

\* the outcome of resolving a document that holds the operator alone
AloneOutcomes(operator) ==
    LET doc == Document(<<>>, {operator})
    IN  { Resolve(Ctx(MaxDepth, rootQueryValue, doc, argOrder), doc, "", <<operator.name>>) :
              argOrder \in Orderings(documentArguments(doc)) }

StartedOperator == request.doc.operatorsMap[response.started[1]]

\* Resolve ran one query operator and its root selection set was not cut
RanQuery ==
    /\ Returned
    /\ Len(response.started) = 1
    /\ StartedOperator.operationType = "query"
    /\ MaxDepth > 0

RECURSIVE FieldsOf(_, _)
\* the fields a selection set asks for, fragments spread out
FieldsOf(fragments, selectionSet) ==
    IF Len(selectionSet) = 0 THEN <<>>
    ELSE LET sel == Head(selectionSet)
             first == CASE sel.selectionType = "Field" -> <<sel.field>>
                        [] sel.selectionType = "FragmentSpread" ->
                             IF sel.fragmentSpread.name \in DOMAIN fragments
                             THEN FieldsOf(fragments, fragments[sel.fragmentSpread.name])
                             ELSE <<>>
                        [] OTHER -> FieldsOf(fragments, sel.inlineFragment.selection)
         IN  first \o FieldsOf(fragments, Tail(selectionSet))

RootFields == FieldsOf(request.doc.fragments, StartedOperator.selection)

\* the key a field is emitted under
EntryName(field) == IF Len(field.alias) > 0 THEN field.alias ELSE field.name

\* the object holds the entry "name":data
HasEntry(tokens, name, data) ==
    \E i \in 1..(Len(tokens) - 2) :
        tokens[i] = Quote(name) /\ tokens[i + 1] = ":" /\ tokens[i + 2] = data

\* the JSON encoding of a scalar host value, by its underlying kind
JsonEncoding(value) ==
    IF value.kind = "string" THEN Quote(value.v)
    ELSE IF value.kind = "bool" THEN (IF value.v THEN "true" ELSE "false")
    ELSE IF value.kind \in FloatKinds THEN value.v
    ELSE ToString(value.v)

IsKnown(field, type) == field.name \in DOMAIN type.objContents

\* a known field read as plain scalar data
IsScalarField(field, type) ==
    /\ IsKnown(field, type)
    /\ type.objContents[field.name].valueType = "valueTypeData"
    /\ Len(field.selection) = 0

\* the host value a known field of the struct reads
HostValue(struct_, field, type) ==
    FieldByName(struct_, type.objContents[field.name].structFieldName)

RECURSIVE ObjectTypeName(_)
\* the name of the object type a field holds (directly, behind a pointer or
\* in a list), "" when it holds none
ObjectTypeName(item) ==
    IF item.valueType \in {"valueTypePtr", "valueTypeArray"}
    THEN ObjectTypeName(item.innerContent)
    ELSE IF item.valueType \in {"valueTypeObj", "valueTypeObjRef"} THEN item.typeName
    ELSE ""

\* the root field holds objects and asks for fields of them
HoldsObjects(field) ==
    /\ IsKnown(field, rootQuery)
    /\ ObjectTypeName(rootQuery.objContents[field.name]) \in DOMAIN SchemaTypes
    /\ Len(field.selection) > 0

NestedType(field) == SchemaTypes[ObjectTypeName(rootQuery.objContents[field.name])]
NestedFields(field) == FieldsOf(request.doc.fragments, field.selection)

Mixes(fields, type) ==
    /\ \E i \in DOMAIN fields : IsKnown(fields[i], type)
    /\ \E i \in DOMAIN fields : ~IsKnown(fields[i], type)

\* some selection set of the operation mixes known and unknown field names
MixesKnownAndUnknown ==
    \/ Mixes(RootFields, rootQuery)
    \/ \E i \in DOMAIN RootFields :
           /\ HoldsObjects(RootFields[i])
           /\ Mixes(NestedFields(RootFields[i]), NestedType(RootFields[i]))

\* the unknown fields of the operation: <<i, 0>> for root field i,
\* <<i, j>> for field j of the selection set of root field i
UnknownFields ==
    { <<i, 0>> : i \in { k \in DOMAIN RootFields : ~IsKnown(RootFields[k], rootQuery) } }
    \cup UNION { { <<i, j>> : j \in { k \in DOMAIN NestedFields(RootFields[i]) :
                                   ~IsKnown(NestedFields(RootFields[i])[k],
                                            NestedType(RootFields[i])) } }
                 : i \in { k \in DOMAIN RootFields : HoldsObjects(RootFields[k]) } }

UnknownFieldErrors ==
    { i \in DOMAIN response.errors :
          response.errors[i].format = "field %s does not exists on %s" }

\* every selection set of the operation is resolved: none is cut by MaxDepth
\* and every list asked for fields of its elements holds an element
EverySelectionResolved ==
    /\ MaxDepth = DefaultMaxDepth
    /\ \A i \in DOMAIN RootFields :
           (/\ HoldsObjects(RootFields[i])
            /\ rootQuery.objContents[RootFields[i].name].valueType = "valueTypeArray")
               => Len(HostValue(rootQueryValue, RootFields[i], rootQuery).elems) > 0

\* C5: for every selection set mixing known and unknown field names, each
\* known sibling field is resolved to its correct value and the error list
\* holds exactly one entry per unknown field.
C5_OneErrorPerUnknownField ==
    (RanQuery /\ MixesKnownAndUnknown /\ EverySelectionResolved) =>
        /\ ~response.panicked
        /\ \A i \in DOMAIN RootFields :
               IsScalarField(RootFields[i], rootQuery) =>
                   HasEntry(response.res, EntryName(RootFields[i]),
                            JsonEncoding(HostValue(rootQueryValue, RootFields[i], rootQuery)))
        /\ Cardinality(UnknownFieldErrors) = Cardinality(UnknownFields)

\* the resolution of the root field fails at request time
FailsAtRequestTime(field) ==
    \/ ~IsKnown(field, rootQuery)
    \/ /\ IsKnown(field, rootQuery)
       /\ LET item == rootQuery.objContents[field.name]
          IN  \/ /\ item.valueType \in {"valueTypeObj", "valueTypeObjRef"}
                 /\ Len(field.selection) = 0
              \/ /\ item.valueType = "valueTypeData"
                 /\ Len(field.selection) > 0
              \/ /\ item.valueType = "valueTypeMethod"
                 /\ \E key \in DOMAIN field.arguments \cap DOMAIN item.method.inFields :
                        matchInputValue(field.arguments[key],
                                        item.method.inFields[key].kind).err # ""

\* C6: every field whose resolution fails at request time (unknown name,
\* object without a selection, scalar with a selection, argument kind
\* mismatch) is present in the emitted object as "name":null, and an error
\* is recorded for it.
C6_FailedFieldIsEmittedAsNull ==
    RanQuery =>
        \A i \in DOMAIN RootFields :
            FailsAtRequestTime(RootFields[i]) =>
                /\ HasEntry(response.res, EntryName(RootFields[i]), "null")
                /\ \E e \in DOMAIN response.errors :
                       \E a \in DOMAIN response.errors[e].args :
                           response.errors[e].args[a] = RootFields[i].name

\* the operation selects a single field
SingleField ==
    /\ RanQuery
    /\ Len(StartedOperator.selection) = 1
    /\ StartedOperator.selection[1].selectionType = "Field"

TheField == StartedOperator.selection[1].field

\* C7: a query selecting a single scalar field (string, bool, integer or
\* float kind, named types of these kinds included) yields the JSON encoding
\* of the host value for that field and records no error.
C7_ScalarFieldIsJsonOfHostValue ==
    (SingleField /\ IsScalarField(TheField, rootQuery)) =>
        /\ Flatten(response.res) =
               "{" \o Quote(EntryName(TheField)) \o ":"
                   \o JsonEncoding(HostValue(rootQueryValue, TheField, rootQuery)) \o "}"
        /\ response.errors = <<>>

\* the operation selects a single list field and no selection set is cut
SingleListField ==
    /\ SingleField
    /\ MaxDepth = DefaultMaxDepth
    /\ IsKnown(TheField, rootQuery)
    /\ rootQuery.objContents[TheField.name].valueType = "valueTypeArray"

TheList == HostValue(rootQueryValue, TheField, rootQuery)

\* what element i of the list is to be emitted as: its own encoding, or null
\* when the resolution of the element records an error
ElementTokens(i) ==
    LET inner == rootQuery.objContents[TheField.name].innerContent
        whole(r) == r.value
    IN  IF inner.valueType = "valueTypeData"
        THEN IF Len(TheField.selection) = 0
             THEN <<JsonEncoding(TheList.elems[i])>> ELSE <<"null">>
        ELSE IF Len(TheField.selection) = 0 THEN <<"null">>
        ELSE whole(resolveSelection(
                 Ctx(MaxDepth, rootQueryValue, request.doc, <<>>), NewSt,
                 TheField.selection, TheList.elems[i], SchemaTypes[inner.typeName], 1))

\* C8: a nil list field is emitted as null; a list of N elements as a JSON
\* array of exactly N entries in the original order, an element whose
\* resolution records an error keeping its position as null.
C8_ListIsArrayOfItsElementsInOrder ==
    SingleListField =>
        /\ ~response.panicked
        /\ Flatten(response.res) =
               Flatten(<<"{", Quote(EntryName(TheField)), ":">>
                       \o (IF TheList.k = "slice" /\ TheList.isNil
                           THEN <<"null">>
                           ELSE <<"[">>
                                \o JoinComma([i \in 1..Len(TheList.elems) |->
                                                 ElementTokens(i)])
                                \o <<"]">>)
                       \o <<"}">>)

(***************************************************************************)
(* Properties of the bytecode request path.                                *)
(***************************************************************************)
\* the query {a {bar}}
NestedStringQuery == <<Operator("query", "", <<Sub("a", <<Leaf("bar")>>)>>)>>

\* C3: for a root with an object field holding a struct with a string field
\* (Bar = "baz"), the request {a {bar}} on the bytecode request path yields
\* {"data":{"a":{"bar":"baz"}},"errors":[],"extensions":{}}.
C3_NestedStringThroughObjectField ==
    (/\ http.returned
     /\ ~http.isBatch
     /\ http.entries[1].query = NestedStringQuery) =>
        http.body = "{\"data\":{\"a\":{\"bar\":\"baz\"}},\"errors\":[],\"extensions\":{}}"

\* the envelope of the request when a context made for it alone resolves it
FreshEnvelope(entry) ==
    LET envelope(c) == Envelope(c.result, c.query.Errors)
    IN  envelope(BytecodeResolve(NewBytecodeCtx, rootQueryValue, rootQuery, entry.query,
                                 [NoMeta |-> TRUE]))

PointerQuery == <<Operator("query", "", <<Leaf("p")>>)>>

\* what the object is to hold for p: null, or the text a string field
\* holding the pointed-to value gets
PointerObject ==
    "{\"p\":"
        \o (IF IsNil(rootQueryValue.fields.P) THEN "null"
            ELSE JsonEncoding(rootQueryValue.fields.P.elem))
        \o "}"

\* the object Schema.Resolve returns for {p}
ResolvedPointer ==
    LET doc == Document(<<>>, {PointerQuery[1]})
    IN  Flatten(Resolve(Ctx(MaxDepth, rootQueryValue, doc, <<>>), doc, "", <<"">>).res)

\* C9: in Schema.Resolve and in BytecodeResolve alike a nil pointer field is
\* emitted as null and a non-nil pointer field exactly as a field of the
\* underlying kind holding the pointed-to value.
C9_PointerFieldIsNullOrItsValue ==
    (bytecodeOut.called /\ bytecodeOut.opts.NoMeta /\ bytecodeOut.query = PointerQuery) =>
        /\ ResolvedPointer = PointerObject
        /\ Flatten(bytecodeOut.result) = PointerObject

(***************************************************************************)
(* Properties of the depth guard.                                          *)
(***************************************************************************)
RECURSIVE InnerOf(_)
\* a host object holding n more objects behind its Next pointers
InnerOf(n) ==
    InnerChain(NilPtr, "baz", IF n = 0 THEN NilPtr ELSE PtrTo(InnerOf(n - 1)))

\* the host of the walk: the root object holds a chain through A
ChainRoot == [rootQueryValue EXCEPT !.fields.A = InnerOf(CrossNest)]

RECURSIVE InnerSelection(_)
InnerSelection(n) ==
    IF n = 1 THEN <<Leaf("bar")>> ELSE <<Sub("next", InnerSelection(n - 1))>>

\* the query that nests the number of selection sets
ChainSelection(nest) ==
    IF nest = 1 THEN <<Leaf("s")>> ELSE <<Sub("a", InnerSelection(nest - 1))>>

RECURSIVE WalkText(_)
\* the text the walk stands for, from the selection set of the level on
WalkText(level) ==
    IF level = walk.cut THEN "null"
    ELSE IF level + 1 = walk.nest
    THEN (IF level = 0 THEN "{\"s\":\"str\"}" ELSE "{\"bar\":\"baz\"}")
    ELSE "{" \o (IF level = 0 THEN "\"a\"" ELSE "\"next\"") \o ":"
             \o WalkText(level + 1) \o "}"

\* what Ctx.resolveSelection returns for the query of the walk
ResolvedChain ==
    Flatten(resolveSelection(Ctx(MaxDepth, ChainRoot, NoRequest.doc, <<>>), NewSt,
                             ChainSelection(walk.nest), ChainRoot, rootQuery, 0).value)

\* C10: with MaxDepth 255 or any configured value, a selection set is
\* emitted as null exactly when its nesting depth (the root selection set
\* is 0) is at or beyond MaxDepth; every selection set above the cutoff is
\* emitted, the call returns after at most one call per nested selection
\* set, and the uint8 depth counter equals the nesting depth: it never wraps.
C10_DepthGuardCutsAtMaxDepth ==
    /\ walk.dept = walk.level
    /\ walk.level <= MaxDepth
    /\ walk.status = "walking" => walk.level < walk.nest /\ walk.opened = walk.level
    /\ walk.status = "returned" =>
           /\ walk.nest > MaxDepth => walk.cut = MaxDepth /\ walk.opened = MaxDepth
           /\ walk.nest <= MaxDepth => walk.cut = -1 /\ walk.opened = walk.nest
           /\ walk.nest <= CrossNest => ResolvedChain = WalkText(0)

\* the default MaxDepth and a query nesting more selection sets than a uint8
\* counts: the walk returned with null at depth 255
C10_Witness ==
    /\ MaxDepth = DefaultMaxDepth
    /\ walk.status = "returned"
    /\ walk.nest > Uint8Width
    /\ walk.cut = DefaultMaxDepth
    /\ walk.opened = DefaultMaxDepth

(***************************************************************************)
(* Properties of the request-time failures of Schema.Resolve.              *)
(***************************************************************************)
\* the messages resolve.go records for the request-time failures of a field
\* other than the depth limit
FieldFailureFormats ==
    { "field %s does not exists on %s", "field %s must have a selection",
      "field %s cannot have a selection", "field %s has invalid data type",
      "field %s does not have an internal type of an array",
      "field %s returned a invalid kind of error",
      "undefined function %s input: %s", "%s, function: %s, property: %s",
      "unknown fragment %s" }

\* Resolve ran a query operator and the depth limit cut a selection set off:
\* the root selection set, or the selection set of an object field of the root
DepthLimitCuts ==
    /\ Returned
    /\ Len(response.started) = 1
    /\ StartedOperator.operationType = "query"
    /\ \/ MaxDepth = 0
       \/ /\ MaxDepth = 1
          /\ \E i \in DOMAIN RootFields :
                 /\ HoldsObjects(RootFields[i])
                 /\ rootQuery.objContents[RootFields[i].name].valueType
                        \in {"valueTypeObj", "valueTypeObjRef"}

\* C11: when the depth limit cuts off a subtree, the call returns and a
\* message about it is appended to the error list of the response, as for
\* the other request-time failures of a field.
C11_DepthCutRecordsAnError ==
    DepthLimitCuts =>
        /\ ~response.panicked
        /\ \E i \in DOMAIN response.errors :
               response.errors[i].format \notin FieldFailureFormats

(***************************************************************************)
(* Properties of the operation roots.                                      *)
(***************************************************************************)
\* Schema.rootMethodValue: the value of the methods argument given to
\* Schema.Parse, a Mut{Done: true}
rootMethodValue == Struct([Done |-> BoolVal(TRUE)])

\* Resolve started one operator of the type
RanOperation(operationType) ==
    /\ Returned
    /\ Len(response.started) = 1
    /\ StartedOperator.operationType = operationType

\* what Resolve returns when the selection set of the started operator is
\* resolved against the host instance and its type descriptor
RootOutcomes(host, type) ==
    LET return(r) == IF r.st.panicked
                     THEN Response(<<>>, <<>>, response.started, r.st)
                     ELSE Response(r.value, r.st.errors, response.started, r.st)
    IN  { return(resolveSelection(Ctx(MaxDepth, rootQueryValue, request.doc, argOrder),
                                  NewSt, StartedOperator.selection, host, type, 0)) :
              argOrder \in Orderings(documentArguments(request.doc)) }

\* C12: a mutation operation is resolved against the mutation root, both
\* its type descriptor and its live host instance being those of the methods
\* argument of Schema.Parse; a query operation is resolved against the type
\* descriptor and the instance of the query root.
C12_MutationUsesMutationRoot ==
    /\ RanOperation("mutation") => response \in RootOutcomes(rootMethodValue, rootMethod)
    /\ RanOperation("query") => response \in RootOutcomes(rootQueryValue, rootQuery)

(***************************************************************************)
(* Properties of the arguments of resolver functions.                      *)
(***************************************************************************)
\* the root fields of the query that are resolver functions
IsMethodField(field) ==
    /\ IsKnown(field, rootQuery)
    /\ rootQuery.objContents[field.name].valueType = "valueTypeMethod"

MethodOf(field) == rootQuery.objContents[field.name].method

\* the arguments of the field given as a variable or as an enum literal
UnsupportedArguments(field) ==
    { key \in DOMAIN field.arguments :
          field.arguments[key].isVar \/ field.arguments[key].isEnum }

UnsupportedMessage(queryValue) ==
    IF queryValue.isVar THEN "variable function arguments are currently unsupported"
    ELSE "enum function arguments are currently unsupported"

\* the errors recorded for an argument of the field that failed its check
ArgumentErrors(field, key) ==
    { i \in DOMAIN response.errors :
          /\ response.errors[i].format = "%s, function: %s, property: %s"
          /\ response.errors[i].args[2] = field.name
          /\ response.errors[i].args[3] = key }

\* an error names the argument as unsupported
NamedUnsupported(field, key) ==
    \E i \in ArgumentErrors(field, key) :
        response.errors[i].args[1] = UnsupportedMessage(field.arguments[key])

\* the resolver of the field was invoked
Invoked(field) == \E i \in DOMAIN response.calls : response.calls[i].name = field.name

\* a subscription invokes no resolver and returns the error
SubscriptionIsRefused ==
    RanOperation("subscription") =>
        /\ response.calls = <<>>
        /\ Flatten(response.res) = "{}"
        /\ response.errors = <<Err("subscription not suppored yet", <<>>)>>

MismatchedArguments(field) ==
    { key \in DOMAIN field.arguments \cap DOMAIN MethodOf(field).inFields :
          /\ ~field.arguments[key].isVar
          /\ ~field.arguments[key].isNull
          /\ ~field.arguments[key].isEnum
          /\ matchLiteral(field.arguments[key], MethodOf(field).inFields[key].kind).err # "" }

\* C14: if the literal of any supplied argument does not match the kind of
\* the input it names, the resolver is not invoked, the field is emitted as
\* null and an error is recorded for a mismatched argument; the resolver is
\* invoked only when no supplied argument mismatched.
C14_MismatchedArgumentNullsTheField ==
    RanQuery =>
        \A i \in DOMAIN RootFields :
            IsMethodField(RootFields[i]) =>
                /\ MismatchedArguments(RootFields[i]) # {} =>
                       /\ ~Invoked(RootFields[i])
                       /\ HasEntry(response.res, EntryName(RootFields[i]), "null")
                       /\ \E key \in DOMAIN RootFields[i].arguments :
                              ArgumentErrors(RootFields[i], key) # {}
                /\ Invoked(RootFields[i]) => MismatchedArguments(RootFields[i]) = {}

(***************************************************************************)
(* Properties of ID fields.                                                *)
(***************************************************************************)
\* what a scalar field is to be emitted as: an ID of a kind other than
\* string in quotes, anything else as the JSON encoding of its value
ScalarText(item, value) ==
    IF item.isID /\ item.dataValueType # "string"
    THEN Quote(JsonEncoding(value))
    ELSE JsonEncoding(value)

\* the object that holds the one scalar field
ScalarObject(field) ==
    "{" \o Quote(field.name) \o ":"
        \o ScalarText(rootQuery.objContents[field.name],
                      HostValue(rootQueryValue, field, rootQuery))
        \o "}"

\* the fields of the query root compared: an integer ID, a string ID and an
\* integer that is no ID
IdFields == {"id", "sid", "i"}

\* BytecodeResolve returned the object of a query for one of the fields
BytecodeOneField ==
    /\ bytecodeOut.called
    /\ bytecodeOut.opts.NoMeta
    /\ Len(bytecodeOut.query) = 1
    /\ Len(bytecodeOut.query[1].selection) = 1
    /\ bytecodeOut.query[1].selection[1].field.name \in IdFields

\* C15: an ID field whose kind is not string is emitted as a quoted JSON
\* string, an ID field of kind string is quoted exactly once and a numeric
\* field that is no ID is emitted unquoted, in Schema.Resolve and in
\* BytecodeResolve alike.
C15_IdFieldIsQuotedOnce ==
    /\ (SingleField /\ TheField.name \in IdFields /\ TheField.alias = "") =>
           Flatten(response.res) = ScalarObject(TheField)
    /\ BytecodeOneField =>
           Flatten(bytecodeOut.result) = ScalarObject(bytecodeOut.query[1].selection[1].field)

(***************************************************************************)
(* Properties of the schema builder.                                       *)
(***************************************************************************)
\* C16: after any sequence of Schema.Parse calls on one Schema, the schema is
\* marked as parsed only if the most recent Parse call returned no error.
C16_ParsedOnlyAfterSuccess ==
    schema.parsed => (parseOut.called /\ parseOut.err = "")

\* the fields of a struct type that carry no "-" tag
KeptFields(t) ==
    {t.Fields[i] : i \in {j \in DOMAIN t.Fields : ~parseFieldTagGQ(t.Fields[j]).ignore}}

RECURSIVE Declared(_)
\* the struct and interface types a build meets from a type on
Declared(id) ==
    CASE TypeOf(id).Kind = "struct" ->
            {id} \cup UNION {Declared(field.Type) : field \in KeptFields(TypeOf(id))}
      [] TypeOf(id).Kind \in {"array", "slice", "ptr"} -> Declared(TypeOf(id).Elem)
      [] TypeOf(id).Kind = "interface" ->
            {id} \cup UNION {Declared(implementationMap[TypeOf(id).Name][i]) :
                               i \in DOMAIN implementationMap[TypeOf(id).Name]}
      [] OTHER -> {}

\* the types the last Parse was to register, and the name each goes under
ParsedTypes == Declared(parseOut.queries) \cup Declared(parseOut.methods)
FacingName(id) ==
    IF TypeOf(id).Name \in DOMAIN parseOut.renamed
    THEN parseOut.renamed[TypeOf(id).Name]
    ELSE TypeOf(id).Name

NamesCollide ==
    \E a, b \in ParsedTypes :
        /\ a # b
        /\ TypeOf(a).Kind = TypeOf(b).Kind
        /\ FacingName(a) = FacingName(b)

CollisionErrors ==
    {"cannot have 2 structs with same type name: %s(%s) != %s(%s)",
     "cannot have 2 interfaces with same type name: %s(%s) != %s(%s)"}

\* the entry a struct type is registered under is an entry of that declaration
OwnEntry(id) ==
    (TypeOf(id).Kind = "struct" /\ FacingName(id) \in DOMAIN schema.types) =>
        /\ schema.types[FacingName(id)].goPkgPath = TypeOf(id).PkgPath
        /\ schema.types[FacingName(id)].goTypeName = TypeOf(id).Name

\* C17: when two distinct struct (or interface) types would register under
\* the same query-facing name, by their Go names or through TypeRename,
\* Schema.Parse fails with a collision error; a type resolves to a reference
\* to an existing entry only when the entry is of the very same declaration.
C17_NameCollisionFailsTheBuild ==
    parseOut.called =>
        /\ NamesCollide => parseOut.err \in CollisionErrors
        /\ parseOut.err = "" => \A id \in ParsedTypes : OwnEntry(id)

\* a field of the struct type is tagged ID and is of a struct or interface type
HasIdTaggedObject(id) ==
    /\ TypeOf(id).Kind = "struct"
    /\ \E field \in KeptFields(TypeOf(id)) :
         /\ parseFieldTagGQ(field).isID
         /\ TypeOf(field.Type).Kind \in {"struct", "interface"}

\* the query-facing names of the fields a struct type declares
FieldNames(id) ==
    { IF Len(parseFieldTagGQ(field).newName) > 0
      THEN Flatten(parseFieldTagGQ(field).newName)
      ELSE formatGoNameToQL(field.Name) : field \in KeptFields(TypeOf(id)) }

\* the entry of a struct type, when it has one of its own, holds every field
EveryFieldRegistered(id) ==
    (/\ TypeOf(id).Kind = "struct"
     /\ FacingName(id) \in DOMAIN schema.types
     /\ schema.types[FacingName(id)].goTypeName = TypeOf(id).Name) =>
        DOMAIN schema.types[FacingName(id)].objContents = FieldNames(id)

\* C18: an ID tag on a struct-typed or interface-typed field makes
\* Schema.Parse return an error, and a schema that Parse reports as built
\* holds every field of every struct it registered: no error of a field check
\* is dropped with the fields after it.
C18_FieldErrorsAbortTheBuild ==
    parseOut.called =>
        /\ (\E id \in ParsedTypes : HasIdTaggedObject(id)) => parseOut.err # ""
        /\ parseOut.err = "" => \A id \in ParsedTypes : EveryFieldRegistered(id)

(***************************************************************************)
(* Properties of the enum registry.                                        *)
(***************************************************************************)
Registered == {definedEnums[name] : name \in DOMAIN definedEnums}

\* keyValue and valueKey of an enum are inverse bijections of each other
InverseBijections(enum) ==
    /\ \A label \in DOMAIN enum.keyValue :
         /\ enum.keyValue[label] \in DOMAIN enum.valueKey
         /\ enum.valueKey[enum.keyValue[label]] = label
    /\ \A value \in DOMAIN enum.valueKey :
         /\ enum.valueKey[value] \in DOMAIN enum.keyValue
         /\ enum.keyValue[enum.valueKey[value]] = value

\* the identifier grammar [A-Za-z_][A-Za-z0-9_]* on the bytes of a label
InGrammar(label) ==
    /\ Len(label) > 0
    /\ \A i \in DOMAIN label :
         \/ label[i] \in UpperCase \cup LowerCase \cup {"_"}
         \/ i > 1 /\ label[i] \in Digits

HasDuplicateValue(entries) ==
    \E a, b \in DOMAIN entries : a # b /\ entries[a] = entries[b]
HasBadLabel(entries) == \E label \in DOMAIN entries : ~InGrammar(label)

\* the map is a map[string]T for an enum-shaped named type T
IsEnumMap(map_) ==
    map_.Kind = "map" /\ map_.Key = "string" /\ map_.Elem \in DOMAIN EnumTypes

\* the last RegisterEnum call failed, or was given no entry
Refused(out) == out.panicked \/ Cardinality(DOMAIN out.map_.entries) = 0

\* C19: after any sequence of RegisterEnum calls the label-to-value map and
\* the value-to-label map of every registered enum are inverse bijections; a
\* registration with two labels of one value, an empty label or a label
\* outside the identifier grammar fails; a registration of an enum with zero
\* entries is no error; and a registration that fails or has zero entries
\* leaves the registry as it was.
C19_EnumMapsAreInverseBijections ==
    /\ [](\A enum \in Registered : InverseBijections(enum))
    /\ []((enumOut.called /\ (\/ HasDuplicateValue(enumOut.map_.entries)
                              \/ HasBadLabel(enumOut.map_.entries)))
             => enumOut.panicked)
    /\ []((/\ enumOut.called
           /\ IsEnumMap(enumOut.map_)
           /\ Cardinality(DOMAIN enumOut.map_.entries) = 0) => ~enumOut.panicked)
    /\ [][Refused(enumOut') => definedEnums' = definedEnums]_vars

C19_Witness ==
    /\ enumOut.called
    /\ enumOut.panicked
    /\ HasDuplicateValue(enumOut.map_.entries)
    /\ \E enum \in Registered : Cardinality(DOMAIN enum.keyValue) = 2

\* what getEnum returns for a host type, given the registry
Lookup(enums, id) ==
    IF hasEnum(enums, TypeOf(id)) THEN getEnum(enums, TypeOf(id)) ELSE [typeName |-> ""]

\* C20: enum lookup is by host type identity: the enum getEnum returns for a
\* host type was registered for that very type, never for another type of
\* the same name in another package, and a RegisterEnum call for one type
\* leaves what getEnum returns for every other type as it was.
C20_EnumLookupIsByTypeIdentity ==
    /\ [](\A id \in DOMAIN EnumTypes :
            hasEnum(definedEnums, TypeOf(id)) =>
                getEnum(definedEnums, TypeOf(id)).contentType = TypeOf(id))
    /\ [][\A id \in DOMAIN EnumTypes :
            enumOut'.map_.Elem # id =>
                Lookup(definedEnums', id) = Lookup(definedEnums, id)]_vars

(***************************************************************************)
(* Properties of the schema lock.                                          *)
(***************************************************************************)
\* the calls that are between s.m.Lock() and the deferred s.m.Unlock()
Holders ==
    { <<g, i>> \in Goroutines \X (1..(MaxReentry + 1)) :
          /\ i \in DOMAIN callers[g].stack
          /\ callers[g].stack[i].pc \in {"locked", "started", "returning"} }

\* the innermost call of the goroutine waits in s.m.Lock()
Waits(g) == Running(g) /\ Top(g).pc = "lock"

\* C21: concurrent Schema.Resolve calls on one Schema exclude each other
\* from Lock to return, the lock is free whenever no call is inside, whatever
\* the path the last call returned by, and no Resolve call, one made from
\* inside a resolver of the same schema included, waits for the lock forever.
C21_ResolveIsSerializedAndNeverBlocksForever ==
    /\ [](Cardinality(Holders) <= 1)
    /\ [](mutex <=> Holders # {})
    /\ \A g \in Goroutines : Waits(g) ~> ~Waits(g)

(***************************************************************************)
(* Properties of the emitted objects.                                      *)
(***************************************************************************)
\* the tokens that open and close an object or an array
Openers == {"{", "["}
Closers == {"}", "]"}

RECURSIVE KeysAt(_, _, _, _)
\* the positions of the ":" of the entries of the outermost object of a
\* text, found by counting the brackets open at each token
KeysAt(tokens, i, open, found) ==
    IF i > Len(tokens) THEN found
    ELSE KeysAt(tokens, i + 1,
                IF tokens[i] \in Openers THEN open + 1
                ELSE IF tokens[i] \in Closers THEN open - 1 ELSE open,
                IF tokens[i] = ":" /\ open = 1 THEN Append(found, i) ELSE found)

RECURSIVE IsSubsequence(_, _)
\* a is b with some elements left out
IsSubsequence(a, b) ==
    IF Len(a) = 0 THEN TRUE
    ELSE IF Len(b) = 0 THEN FALSE
    ELSE IF Head(a) = Head(b) THEN IsSubsequence(Tail(a), Tail(b))
    ELSE IsSubsequence(a, Tail(b))

\* the entries of every object of a text are separated by exactly one comma:
\* a key of keyLen tokens follows "{" or ",", and a comma stands between a
\* value and a key or an element, never first, last or doubled
CommaSeparated(tokens, keyLen) ==
    \A i \in 1..Len(tokens) :
        /\ tokens[i] = ":" =>
               /\ i - keyLen >= 2
               /\ tokens[i - keyLen - 1] \in {"{", ","}
        /\ tokens[i] = "," =>
               /\ i > 1 /\ i < Len(tokens)
               /\ tokens[i - 1] \notin Openers \cup {",", ":"}
               /\ tokens[i + 1] \notin Closers \cup {",", ":"}

\* the keys of the outermost object, in the order the text has them
EmittedNames(tokens, keyAt(_)) ==
    LET keys == KeysAt(tokens, 1, 0, <<>>)
    IN  [k \in 1..Len(keys) |-> keyAt(keys[k])]

\* the names a selection set of BytecodeResolve asks for, in its order
SelectedNames(selectionSet) ==
    [k \in 1..Len(selectionSet) |-> selectionSet[k].field.name]

\* BytecodeResolve returned the bare object of a query of one operator
BytecodeObject ==
    /\ bytecodeOut.called
    /\ bytecodeOut.opts.NoMeta
    /\ Len(bytecodeOut.query) = 1

\* Schema.Resolve: the object lists its entries in selection order, one
\* comma between two entries
ResolveListsEntriesInOrder ==
    RanQuery =>
        /\ CommaSeparated(response.res, 1)
        /\ IsSubsequence(EmittedNames(response.res, LAMBDA i : response.res[i - 1]),
                         [k \in 1..Len(RootFields) |-> Quote(EntryName(RootFields[k]))])

\* BytecodeResolve: the same of the sibling fields of the root
BytecodeListsEntriesInOrder ==
    BytecodeObject =>
        /\ CommaSeparated(bytecodeOut.result, 3)
        /\ IsSubsequence(EmittedNames(bytecodeOut.result,
                                      LAMBDA i : bytecodeOut.result[i - 2]),
                         SelectedNames(bytecodeOut.query[1].selection))

\* C22: for every selection set and every combination of emitted and
\* non-emitted selections the emitted object lists its entries in selection
\* order with exactly one comma between two consecutive entries and no
\* leading, trailing or doubled comma, in Schema.Resolve and for the sibling
\* root fields of BytecodeResolve.
C22_EntriesAreSeparatedByOneComma ==
    /\ ResolveListsEntriesInOrder
    /\ BytecodeListsEntriesInOrder

(***************************************************************************)
(* Properties of the buffers of BytecodeCtx.                               *)
(***************************************************************************)
\* the context as the next BytecodeResolve call starts on it
Started == reset(bytecodeCtx)

\* the context a call with the arguments of the last one leaves when it runs
\* on a context NewBytecodeCtx has just made
OnFreshContext ==
    BytecodeResolve(NewBytecodeCtx, rootQueryValue, rootQuery, bytecodeOut.query,
                    bytecodeOut.opts)

\* C23: at the start of every BytecodeResolve call, whatever the earlier
\* calls did, calls that stopped on an error in the middle of a field
\* included, the result buffer has the length zero, the value-stack cursor
\* and the instruction cursor are at 0 and the allocation of the buffer is
\* kept; so a call returns what it returns on a new context.
C23_EveryCallStartsOnAResetContext ==
    /\ Len(Started.result) = 0
    /\ Started.currentReflectValueIdx = 0
    /\ Started.charNr = 0
    /\ Started.cap = bytecodeCtx.cap
    /\ bytecodeOut.called =>
           /\ bytecodeOut.result = OnFreshContext.result
           /\ bytecodeOut.errors = OnFreshContext.query.Errors

\* a call ran, in the array the call before left, after a call that stopped
\* on an error with a part of its object written and instructions unread
C23_Witness ==
    /\ held.called /\ held.stopped
    /\ Len(held.result) > 0
    /\ bytecodeOut.called
    /\ Len(bytecodeOut.errors) = 0
    /\ ~bytecodeCtx.grown
    /\ bytecodeCtx.cap > 0

\* the slice the call before the last returned, read now: the last call has
\* written its first inPlace bytes over the array that slice lies in
HeldNow ==
    [i \in 1..Len(held.result) |->
        IF i <= bytecodeCtx.inPlace THEN bytecodeCtx.result[i] ELSE held.result[i]]

\* C29: the bytes one BytecodeResolve call returned are not changed by any
\* later BytecodeResolve call on the same context.
C29_ReturnedBytesAreNotChangedByLaterCalls ==
    held.called => HeldNow = held.result

(***************************************************************************)
(* Properties of the registration of types.                                *)
(***************************************************************************)
RECURSIVE RefsOf(_)
\* the references an obj holds, through its pointers and lists
RefsOf(o) ==
    IF o.valueType \in {"valueTypePtr", "valueTypeArray"} THEN RefsOf(o.innerContent)
    ELSE IF o.valueType \in {"valueTypeObjRef", "valueTypeInterfaceRef"} THEN {o}
    ELSE {}

\* the references the registry holds: the fields of its types, the
\* implementations of its interfaces and what the last call returned
RegistryRefs ==
    LET c == checking.c
    IN  UNION { UNION { RefsOf(c.types[n].objContents[f]) :
                          f \in DOMAIN c.types[n].objContents } : n \in DOMAIN c.types }
        \cup UNION { UNION { RefsOf(c.interfaces[n].implementations[i]) :
                               i \in DOMAIN c.interfaces[n].implementations } :
                       n \in DOMAIN c.interfaces }
        \cup RefsOf(checking.ret.obj)

\* a reference names an entry of the registry
NamesAnEntry(ref) ==
    IF ref.valueType = "valueTypeObjRef" THEN ref.typeName \in DOMAIN checking.c.types
    ELSE ref.typeName \in DOMAIN checking.c.interfaces

\* the calls in progress that are at the fields or the implementations of a
\* named type have entered it in the registry
EnteredBeforeProcessed ==
    \A k \in DOMAIN checking.stack :
        /\ checking.stack[k].at = "fields" =>
               checking.stack[k].typeName \in DOMAIN checking.c.types
        /\ checking.stack[k].at = "impls" =>
               checking.stack[k].typeName \in DOMAIN checking.c.interfaces

\* a type that is met while a call for it is in progress, or after one,
\* comes back as a reference, and so does every struct and interface
LaterEncountersAreReferences ==
    (checking.ret.set /\ checking.ret.err = "") =>
        checking.ret.obj.valueType \notin {"valueTypeObj", "valueTypeInterface"}

\* C24: the registration of types terminates on every finite type graph,
\* self-referential and mutually recursive struct and interface types
\* included: a named type is entered in the registry before its fields or
\* implementations are processed, later encounters of it resolve to an
\* ObjectRef or InterfaceRef, and every reference names an existing entry.
C24_TypeRegistrationTerminates ==
    /\ [](EnteredBeforeProcessed /\ LaterEncountersAreReferences)
    /\ [](\A ref \in RegistryRefs : NamesAnEntry(ref))
    /\ (checking.status = "running" ~> checking.status = "returned")

(***************************************************************************)
(* Properties of the query parser.                                         *)
(***************************************************************************)
\* the grammar of names, [A-Za-z_][A-Za-z0-9_]*
NameStart == Letters \cup UpperCase \cup {"_"}
NamePart == NameStart \cup Digits
IsName(bytes) ==
    /\ Len(bytes) > 0
    /\ bytes[1] \in NameStart
    /\ \A k \in 2..Len(bytes) : bytes[k] \in NamePart

\* the length of the longest name the bytes begin with
LongestName(bytes) ==
    CHOOSE n \in 0..Len(bytes) :
        /\ n = 0 \/ IsName(SubSeq(bytes, 1, n))
        /\ \A k \in (n + 1)..Len(bytes) : ~IsName(SubSeq(bytes, 1, k))

\* C25: the grammar of names, [A-Za-z_][A-Za-z0-9_]*, is what parseName and
\* validGraphQlName accept: each accepts every string of the grammar in
\* full, upper-case letters and a leading underscore included, and parseName
\* stops at, and validGraphQlName refuses, every byte outside it.
C25_NameGrammarIsWhatBothAccept ==
    /\ queryCall.fn = "parseName" =>
           /\ queryCall.charNr = LongestName(queryCall.data)
           /\ queryCall.name = Flatten(SubSeq(queryCall.data, 1, queryCall.charNr))
    /\ queryCall.fn = "validGraphQlName" =>
           (queryCall.err = "" <=> IsName(queryCall.data))

\* C26: ParseQuery returns an operation and no error for every well-formed
\* document, an optional keyword, an optional name and a selection set of
\* one or more field names closed by "}", the kind being query when the
\* document starts with "{"; and the outcome is the same however many
\* ignored tokens (none, spaces, line terminators, comments, the byte order
\* mark) stand between the meaningful tokens.
C26_WellFormedDocumentsParse ==
    (queryCall.fn = "ParseQuery" /\ queryCall.kind = "wellformed") =>
        /\ queryCall.err = ""
        /\ queryCall.res.operationType =
               (IF queryCall.doc.keyword = "" THEN "query" ELSE queryCall.doc.keyword)
        /\ queryCall.res.name = Flatten(queryCall.doc.name)
        /\ queryCall.res = ParseQuery(DocumentText(Bare(queryCall.doc))).res
        /\ queryCall.err = ParseQuery(DocumentText(Bare(queryCall.doc))).err

\* C27: ParseQuery returns ErrorUnexpectedEOF and no other error whenever
\* the input ends after an operation has begun and before its selection set
\* is closed, in the middle of a keyword, a name, a field or "..." included,
\* and another error when the input is complete and malformed.
C27_TruncatedInputIsUnexpectedEOF ==
    queryCall.fn = "ParseQuery" =>
        /\ queryCall.kind = "truncated" => queryCall.err = ErrorUnexpectedEOF
        /\ queryCall.kind = "malformed" => queryCall.err \notin {"", ErrorUnexpectedEOF}

\* the keys that the input spells at the cursor, byte for byte
Spelled(data, startIdx, oneOf) ==
    { key \in oneOf :
        /\ startIdx + Len(KeywordSpelling[key]) <= Len(data)
        /\ SubSeq(data, startIdx + 1, startIdx + Len(KeywordSpelling[key]))
               = KeywordSpelling[key] }

\* C28: matches recognises a keyword only when the input at the cursor
\* spells exactly it, every byte, the last one included; with no match it
\* returns the empty string and leaves the cursor where it was, with a match
\* the cursor rests on the last byte of the keyword.
C28_KeywordIsMatchedByteForByte ==
    queryCall.fn = "matches" =>
        LET spelled == Spelled(queryCall.data, queryCall.startIdx, queryCall.oneOf)
        IN  /\ spelled = {} =>
                   queryCall.key = "" /\ queryCall.charNr = queryCall.startIdx
            /\ spelled # {} =>
                   /\ queryCall.key \in spelled
                   /\ queryCall.charNr =
                          queryCall.startIdx + Len(KeywordSpelling[queryCall.key]) - 1

====
